---- MODULE Spec2Model ----
(***************************************************************************)
(* The channel analytics engine of snapback-ai-demo: the GET handler of    *)
(* src/app/api/youtube-audit/route.ts.  The handler fetches a channel's    *)
(* uploads (channel lookup, playlist pages, detail batches), derives the   *)
(* per-video metrics, ranks the videos by views per day, slices the        *)
(* quartiles and assembles the report.                                     *)
(*                                                                         *)
(* JavaScript numbers are modelled as exact rationals <<n, d>> in lowest   *)
(* terms with d >= 0; <<0, 0>> is NaN, <<1, 0>> and <<-1, 0>> are the      *)
(* infinities, and the empty tuple is null.  The threshold comparisons of  *)
(* the summary (30 seconds, 5 points) are evaluated on IEEE 754 doubles.   *)
(* Times are milliseconds since a Sunday 00:00 UTC.                        *)
(***************************************************************************)
EXTENDS Integers, Sequences, FiniteSets, TLC

VARIABLES
  pc,          \* where the handler stands
  tz,          \* the server's offset from UTC, in minutes
  maxResults,  \* Math.min(parseInt(maxResults param), 200)
  videoIds,    \* the ids collected from the playlist pages
  pageToken,   \* the continuation token of the last page (NoToken: none)
  idx,         \* i of the detail loop
  rawVideos,   \* the detail records fetched
  inflight,    \* the external call awaited (NoCall: none)
  work,        \* the handler's locals of steps 4 and 5
  response,    \* what the caller receives (NoResponse: nothing yet)
  upstream,    \* the video platform: which channel it serves, the ids served
  hist         \* history: the calls issued and how the upstream answered

vars == <<pc, tz, maxResults, videoIds, pageToken, idx, rawVideos, inflight,
          work, response, upstream, hist>>

\* ---------------------------------------------------------------- numbers

NaN == <<0, 0>>
Null == <<>>

Abs(x) == IF x < 0 THEN -x ELSE x

RECURSIVE Gcd(_, _)
Gcd(a, b) == IF b = 0 THEN a ELSE Gcd(b, a % b)

\* The number n / d as JavaScript's division gives it: 0/0 is NaN, x/0 an infinity.
Rat(n, d) ==
  IF d = 0 THEN (IF n = 0 THEN NaN ELSE IF n > 0 THEN <<1, 0>> ELSE <<-1, 0>>)
  ELSE LET g == Gcd(Abs(n), Abs(d))
           s == IF d < 0 THEN -1 ELSE 1
       IN <<s * (n \div g), s * (d \div g)>>

Num(i) == <<i, 1>>
IsNum(x) == x # Null /\ x # NaN /\ x[2] # 0

\* A divisor to cancel before multiplying (1 when both are 0).
Cancel(a, b) == LET g == Gcd(Abs(a), Abs(b)) IN IF g = 0 THEN 1 ELSE g

RAdd(a, b) ==
  LET g == Cancel(a[2], b[2])
  IN Rat(a[1] * (b[2] \div g) + b[1] * (a[2] \div g), a[2] * (b[2] \div g))
RNeg(a) == <<-a[1], a[2]>>
RSub(a, b) == RAdd(a, RNeg(b))
RDiv(a, b) ==
  LET gn == Cancel(a[1], b[1])
      gd == Cancel(a[2], b[2])
  IN Rat((a[1] \div gn) * (b[2] \div gd), (a[2] \div gd) * (b[1] \div gn))

\* Comparisons: every comparison with NaN is false.
RMul(a, b) ==
  LET g1 == Cancel(a[1], b[2])
      g2 == Cancel(b[1], a[2])
  IN Rat((a[1] \div g1) * (b[1] \div g2), (a[2] \div g2) * (b[2] \div g1))

RLt(a, b) ==
  /\ a # NaN /\ b # NaN
  /\ IF a[2] = 0 /\ b[2] = 0 THEN a[1] < b[1] ELSE a[1] * b[2] < b[1] * a[2]
RGeq(a, b) ==
  /\ a # NaN /\ b # NaN
  /\ IF a[2] = 0 /\ b[2] = 0 THEN a[1] >= b[1] ELSE a[1] * b[2] >= b[1] * a[2]
RGt(a, b) == RLt(b, a)

RECURSIVE Pow10(_)
Pow10(k) == IF k = 0 THEN 1 ELSE 10 * Pow10(k - 1)

\* +x.toFixed(k): the nearest multiple of 10^-k, a tie going away from zero;
\* NaN and the infinities print as such and read back unchanged.
ToFixed(x, k) ==
  IF x[2] = 0 THEN x
  ELSE LET p == Pow10(k)
           m == (2 * Abs(x[1]) * p + x[2]) \div (2 * x[2])
       IN Rat((IF x[1] < 0 THEN -1 ELSE 1) * m, p)

\* Math.floor on a finite number.
Floor(x) == x[1] \div x[2]

\* Math.round: the nearest integer, a half rounded up
MathRound(x) == IF x[2] = 0 THEN x ELSE Num((2 * x[1] + x[2]) \div (2 * x[2]))

\* Math.abs
MathAbs(x) == IF x = NaN THEN NaN ELSE <<Abs(x[1]), x[2]>>

\* Math.min / Math.max of two numbers: NaN if either is NaN.
MathMin(a, b) == IF a = NaN \/ b = NaN THEN NaN ELSE IF RLt(b, a) THEN b ELSE a
MathMax(a, b) == IF a = NaN \/ b = NaN THEN NaN ELSE IF RGt(b, a) THEN b ELSE a

\* The sum of nums[lo..hi], by halves (addition of exact numbers is associative).
RECURSIVE SumRange(_, _, _)
SumRange(nums, lo, hi) ==
  IF lo > hi THEN Num(0)
  ELSE IF lo = hi THEN nums[lo]
  ELSE LET mid == (lo + hi) \div 2
       IN RAdd(SumRange(nums, lo, mid), SumRange(nums, mid + 1, hi))

\* nums.reduce((a, b) => a + b, 0)
Sum(nums) == SumRange(nums, 1, Len(nums))

avg(nums) == IF Len(nums) = 0 THEN Null ELSE RDiv(Sum(nums), Num(Len(nums)))

\* The array whose elements f lists, each element evaluated once.
Array(f) == f \o <<>>

\* x ?? y
Coalesce(x, y) == IF x = Null THEN y ELSE x

\* The elements of s[lo..hi] that satisfy P, in order, by halves.
RECURSIVE FilterRange(_, _, _, _)
FilterRange(P(_), s, lo, hi) ==
  IF lo > hi THEN <<>>
  ELSE IF lo = hi THEN (IF P(s[lo]) THEN <<s[lo]>> ELSE <<>>)
  ELSE LET mid == (lo + hi) \div 2
       IN FilterRange(P, s, lo, mid) \o FilterRange(P, s, mid + 1, hi)

\* s.filter(P)
Filter(P(_), s) == FilterRange(P, s, 1, Len(s))

\* s.slice(from, to) with 0-based non-negative bounds.
Slice(s, from, to) ==
  LET hi == IF to > Len(s) THEN Len(s) ELSE to
  IN IF from >= hi THEN <<>> ELSE Array([i \in 1..(hi - from) |-> s[from + i]])

\* The last k taken from the front.
SliceLastFromFront(s, k) == Slice(s, 0, k)

\* s.slice(-k): the last k elements (all of them when k >= length); slice(-0) is
\* slice(0), the whole array.
SliceLast(s, k) ==
  IF k = 0 THEN s ELSE Slice(s, IF Len(s) > k THEN Len(s) - k ELSE 0, Len(s))

\* ---------------------------------------------------------------- doubles

\* Where a comparison hangs on the last bit of its operands, a number is taken
\* as the IEEE 754 double JavaScript holds: sign * mant * 2^(exp - 53) with
\* 2^52 <= mant < 2^53, or zero.  A mantissa, like every natural number here,
\* is a tuple of four limbs of 27 bits, the lowest first.
MantissaBits == 53
LimbBits == 27
Limb == 2^LimbBits

DZero == [sign |-> 0, exp |-> 0, mant |-> <<0, 0, 0, 0>>]

LimbAt(n, i) == IF i >= 1 /\ i <= 4 THEN n[i] ELSE 0

\* n * 2^s and n \div 2^s, the product below 2^108.
ShlBits(n, r) ==
  Array([i \in 1..4 |->
           (n[i] % 2^(LimbBits - r)) * 2^r + (LimbAt(n, i - 1) \div 2^(LimbBits - r))])
ShlLimbs(n, w) == Array([i \in 1..4 |-> LimbAt(n, i - w)])
Shl(n, s) == ShlBits(ShlLimbs(n, s \div LimbBits), s % LimbBits)
ShrBits(n, r) ==
  Array([i \in 1..4 |->
           (n[i] \div 2^r) + (LimbAt(n, i + 1) % 2^r) * 2^(LimbBits - r)])
ShrLimbs(n, w) == Array([i \in 1..4 |-> LimbAt(n, i + w)])
Shr(n, s) == ShrBits(ShrLimbs(n, s \div LimbBits), s % LimbBits)

NatLess(a, b) == \E i \in 1..4 : a[i] < b[i] /\ \A j \in (i + 1)..4 : a[j] = b[j]

\* a - b for a >= b.
RECURSIVE BorrowInto(_, _, _)
BorrowInto(a, b, i) ==
  IF i = 1 THEN 0
  ELSE IF a[i - 1] - b[i - 1] - BorrowInto(a, b, i - 1) < 0 THEN 1 ELSE 0
NatSub(a, b) ==
  Array([i \in 1..4 |-> (a[i] - b[i] - BorrowInto(a, b, i) + Limb) % Limb])

\* The number of bits of n > 0.
BitLength(n) ==
  LET top == CHOOSE i \in 1..4 : n[i] # 0 /\ \A j \in (i + 1)..4 : n[j] = 0
  IN (top - 1) * LimbBits
       + (CHOOSE l \in 1..LimbBits : 2^(l - 1) <= n[top] /\ n[top] < 2^l)

\* The number of bits of the integer v, 0 < v < 2^30.
BitsOf(v) == CHOOSE l \in 1..30 : 2^(l - 1) <= v /\ v < 2^l

\* n / d as <<m, d', e>> with n / d = (m / d') * 2^e and 1/2 <= m / d' < 1.
Scale(n, d) ==
  IF n >= d
    THEN LET e == BitsOf(n \div d) IN <<n, d * 2^e, e>>
    ELSE LET j == BitsOf((d - 1) \div n) - 1 IN <<n * 2^j, d, -j>>

\* One step of the long division by d < 2^22: p = <<quotient, remainder>> so
\* far, c <= 9 more bits of the quotient.
DivStep(p, d, c) == <<p[1] * 2^c + (p[2] * 2^c) \div d, (p[2] * 2^c) % d>>

\* The first 26 and the next 27 bits of r / d (r < d) behind the binary point,
\* each with the remainder it leaves.
DivHigh(r, d) == DivStep(DivStep(DivStep(<<0, r>>, d, 9), d, 9), d, 8)
DivLow(r, d) == DivStep(DivStep(DivStep(<<0, r>>, d, 9), d, 9), d, 9)

\* The double of a mantissa cut to 53 bits, rounded up or not.
Rounded(sign, exp, mant, up) ==
  IF ~up THEN [sign |-> sign, exp |-> exp, mant |-> mant]
  ELSE IF mant[1] + 1 < Limb
    THEN [sign |-> sign, exp |-> exp, mant |-> <<mant[1] + 1, mant[2], 0, 0>>]
  ELSE IF mant[2] + 1 < 2^(MantissaBits - LimbBits)
    THEN [sign |-> sign, exp |-> exp, mant |-> <<0, mant[2] + 1, 0, 0>>]
  ELSE [sign |-> sign, exp |-> exp + 1,
        mant |-> <<0, 2^(MantissaBits - LimbBits - 1), 0, 0>>]

\* The double nearest to the finite number x, a tie going to the even mantissa:
\* the value of the literal x and of the division x[1] / x[2] of two integers.
Double(x) ==
  IF x[1] = 0 THEN DZero
  ELSE LET s == Scale(Abs(x[1]), x[2])
           hi == DivHigh(s[1], s[2])
           lo == DivLow(hi[2], s[2])
           up == \/ 2 * lo[2] > s[2]
                 \/ 2 * lo[2] = s[2] /\ lo[1] % 2 = 1
       IN Rounded(IF x[1] < 0 THEN -1 ELSE 1, s[3], <<lo[1], hi[1], 0, 0>>, up)

\* |x| < |y|
MagLess(x, y) ==
  IF y.sign = 0 THEN FALSE
  ELSE IF x.sign = 0 THEN TRUE
  ELSE x.exp < y.exp \/ (x.exp = y.exp /\ NatLess(x.mant, y.mant))

\* |x| - |y| for |x| > |y|, rounded to the nearest double; a y below a quarter
\* of x's last place leaves x.
MagSub(x, y) ==
  IF y.sign = 0 \/ x.exp - y.exp > MantissaBits + 1 THEN [x EXCEPT !.sign = 1]
  ELSE LET diff == NatSub(Shl(x.mant, x.exp - y.exp), y.mant)
           len == BitLength(diff)
           exp == y.exp - MantissaBits + len
       IN IF len <= MantissaBits
            THEN [sign |-> 1, exp |-> exp, mant |-> Shl(diff, MantissaBits - len)]
            ELSE LET cut == len - MantissaBits
                     kept == Shr(diff, cut)
                     tail == NatSub(diff, Shl(kept, cut))
                     half == Shl(<<1, 0, 0, 0>>, cut - 1)
                     up == NatLess(half, tail) \/ (tail = half /\ kept[1] % 2 = 1)
                 IN Rounded(1, exp, kept, up)

\* x - y of two doubles that are not negative.
DSub(x, y) ==
  IF x = y THEN DZero
  ELSE IF MagLess(x, y) THEN [MagSub(y, x) EXCEPT !.sign = -1]
  ELSE MagSub(x, y)

\* Math.abs
DAbs(x) == [x EXCEPT !.sign = Abs(@)]

\* x >= y and x > y for doubles that are not negative.
DGeq(x, y) == ~MagLess(x, y)
DGt(x, y) == MagLess(y, x)

\* ------------------------------------------------------------------ strings

\* A title is a string and a character a string of length one.
CharAt(s, i) == SubSeq(s, i, i)

LOWER == "abcdefghijklmnopqrstuvwxyz"
UPPER == "ABCDEFGHIJKLMNOPQRSTUVWXYZ"
DIGITS == "0123456789"

Chars(s) == {CharAt(s, i) : i \in 1..Len(s)}
LowerChars == Chars(LOWER)
UpperChars == Chars(UPPER)
DigitChars == Chars(DIGITS)

\* \s, \d and \w of the regular expressions; the white space of the titles
\* served is the space.
IsSpace(c) == c = " "
IsDigit(c) == c \in DigitChars
IsWordChar(c) == c \in LowerChars \cup UpperChars \cup DigitChars \cup {"_"}

IndexIn(alphabet, c) == CHOOSE i \in 1..Len(alphabet) : CharAt(alphabet, i) = c

LowerOf(c) == IF c \in UpperChars THEN CharAt(LOWER, IndexIn(UPPER, c)) ELSE c

\* String.prototype.toLowerCase
RECURSIVE toLowerCaseFrom(_, _)
toLowerCaseFrom(s, i) ==
  IF i > Len(s) THEN "" ELSE LowerOf(CharAt(s, i)) \o toLowerCaseFrom(s, i + 1)

toLowerCase(s) == toLowerCaseFrom(s, 1)

\* [a-z0-9\s]
IsKeptChar(c) == c \in LowerChars \/ IsDigit(c) \/ IsSpace(c)

\* replace(/[^a-z0-9\s]/g, with): `with` is "" or " "
RECURSIVE replaceOthersFrom(_, _, _)
replaceOthersFrom(s, with, i) ==
  IF i > Len(s) THEN ""
  ELSE (IF IsKeptChar(CharAt(s, i)) THEN CharAt(s, i) ELSE with)
         \o replaceOthersFrom(s, with, i + 1)

replaceOthers(s, with) == replaceOthersFrom(s, with, 1)

\* split(/\s+/): the pieces between the runs of white space, the empty pieces
\* before a leading and after a trailing run included.
RECURSIVE splitFrom(_, _, _, _)
splitFrom(s, i, piece, pieces) ==
  IF i > Len(s) THEN Append(pieces, piece)
  ELSE IF IsSpace(CharAt(s, i))
    THEN IF i > 1 /\ IsSpace(CharAt(s, i - 1))
           THEN splitFrom(s, i + 1, piece, pieces)
           ELSE splitFrom(s, i + 1, "", Append(pieces, piece))
    ELSE splitFrom(s, i + 1, piece \o CharAt(s, i), pieces)

split(s) == splitFrom(s, 1, "", <<>>)

\* String.prototype.trim
RECURSIVE trimStart(_)
trimStart(s) == IF Len(s) > 0 /\ IsSpace(CharAt(s, 1)) THEN trimStart(Tail(s)) ELSE s

RECURSIVE trimEnd(_)
trimEnd(s) ==
  IF Len(s) > 0 /\ IsSpace(CharAt(s, Len(s)))
    THEN trimEnd(SubSeq(s, 1, Len(s) - 1))
    ELSE s

trim(s) == trimEnd(trimStart(s))

\* String.prototype.includes
includes(s, part) ==
  \E i \in 0..(Len(s) - Len(part)) : SubSeq(s, i + 1, i + Len(part)) = part

\* \b at offset p: exactly one of the characters before and after is a \w.
WordBoundary(s, p) ==
  (p >= 1 /\ IsWordChar(CharAt(s, p))) # (p < Len(s) /\ IsWordChar(CharAt(s, p + 1)))

\* `word` at offset p, letter case ignored (the i flag)
MatchAt(s, p, word) ==
  /\ p + Len(word) <= Len(s)
  /\ toLowerCase(SubSeq(s, p + 1, p + Len(word))) = word

\* /\bword\b/i.test(s)
testWord(s, word) ==
  \E p \in 0..(Len(s) - Len(word)) :
    MatchAt(s, p, word) /\ WordBoundary(s, p) /\ WordBoundary(s, p + Len(word))

\* /\bvs\.?\b|\bversus\b/i.test(s)
testVersus(s) ==
  \/ \E p \in 0..(Len(s) - 2) :
       /\ MatchAt(s, p, "vs")
       /\ WordBoundary(s, p)
       /\ \/ WordBoundary(s, p + 2)
          \/ p + 3 <= Len(s) /\ CharAt(s, p + 3) = "." /\ WordBoundary(s, p + 3)
  \/ testWord(s, "versus")

\* /\d/.test(s), /\d+/.test(s)
testDigit(s) == \E i \in 1..Len(s) : IsDigit(CharAt(s, i))

\* ------------------------------------------------------------- raw records

MsPerDay == 86400000
MsPerHour == 3600000
MsPerMinute == 60000

\* A statistics field the upstream record does not carry.
Missing == -1

\* parseInt(field ?? "0") of a count the upstream gives as a decimal string.
ParseCount(field) == IF field = Missing THEN 0 ELSE field

\* A duration token: pt says whether the text holds "PT"; h, m, s are the digit
\* groups before H, M and S, Missing when the component is absent.
parseDuration(iso) ==
  IF ~iso.pt THEN 0
  ELSE ParseCount(iso.h) * 3600 + ParseCount(iso.m) * 60 + ParseCount(iso.s)

NoDuration == [pt |-> FALSE, h |-> Missing, m |-> Missing, s |-> Missing]
Dur(h, m, s) == [pt |-> TRUE, h |-> h, m |-> m, s |-> s]

\* ---------------------------------------------------- per-video metrics

\* The age without its minimum of one day.
daysSincePublishUnclamped(now, publishedMs) ==
  Floor(Rat(now - publishedMs, MsPerDay))

daysSincePublish(now, publishedMs) ==
  LET d == Floor(Rat(now - publishedMs, MsPerDay))
  IN IF d > 1 THEN d ELSE 1

\* The rate without the guard on zero views.
engagementRateUnguarded(viewCount, likeCount, commentCount) ==
  Rat(likeCount + commentCount, viewCount)

engagementRate(viewCount, likeCount, commentCount) ==
  IF viewCount > 0 THEN Rat(likeCount + commentCount, viewCount) ELSE Null

BaseVideo(v, now) ==
  LET viewCount == ParseCount(v.viewCount)
      likeCount == ParseCount(v.likeCount)
      commentCount == ParseCount(v.commentCount)
      days == daysSincePublish(now, v.publishedAt)
  IN [videoId |-> v.id,
      title |-> v.title,
      publishedAt |-> v.publishedAt,
      viewCount |-> viewCount,
      likeCount |-> likeCount,
      commentCount |-> commentCount,
      durationSeconds |-> parseDuration(v.duration),
      daysSincePublish |-> days,
      viewsPerDay |-> Rat(viewCount, days),
      engagementRate |-> engagementRate(viewCount, likeCount, commentCount)]

\* The thresholds read as exclusive.
getVelocityLabelExclusive(score) ==
  IF RGt(score, Rat(3, 2)) THEN "Exploding"
  ELSE IF RGt(score, Rat(11, 10)) THEN "Outperforming"
  ELSE IF RGt(score, Rat(9, 10)) THEN "Baseline"
  ELSE "Underperforming"

getVelocityLabel(score) ==
  IF RGeq(score, Rat(3, 2)) THEN "Exploding"
  ELSE IF RGeq(score, Rat(11, 10)) THEN "Outperforming"
  ELSE IF RGeq(score, Rat(9, 10)) THEN "Baseline"
  ELSE "Underperforming"

\* The mean of the view counts, the age left out.
ChannelAvgVpdOfViews(baseVideos) ==
  Coalesce(avg([i \in 1..Len(baseVideos) |-> Num(baseVideos[i].viewCount)]), Num(1))

\* avg(baseVideos.map(v => v.viewsPerDay)) ?? 1
ChannelAvgVpd(baseVideos) ==
  Coalesce(avg([i \in 1..Len(baseVideos) |-> baseVideos[i].viewsPerDay]), Num(1))

Enrich(v, channelAvgVpd) ==
  [videoId |-> v.videoId,
   title |-> v.title,
   publishedAt |-> v.publishedAt,
   viewCount |-> v.viewCount,
   likeCount |-> v.likeCount,
   commentCount |-> v.commentCount,
   durationSeconds |-> v.durationSeconds,
   daysSincePublish |-> v.daysSincePublish,
   viewsPerDay |-> v.viewsPerDay,
   engagementRate |-> v.engagementRate,
   velocityScore |-> ToFixed(RDiv(v.viewsPerDay, channelAvgVpd), 3),
   velocityLabel |-> getVelocityLabel(RDiv(v.viewsPerDay, channelAvgVpd))]

\* Array.prototype.sort with a consistent comparator: the stable sort.  Element
\* i lands after the elements the comparator puts before it and after the
\* earlier elements it ties with.  Before(a, b) is compare(a, b) < 0.
SortBy(Before(_, _), s) ==
  LET n == Len(s)
      rank == Array([i \in 1..n |->
                 1 + Cardinality({j \in 1..n :
                       \/ Before(s[j], s[i])
                       \/ (j < i /\ ~Before(s[i], s[j]))})])
      at == Array([k \in 1..n |-> CHOOSE i \in 1..n : rank[i] = k])
  IN Array([k \in 1..n |-> s[at[k]]])

\* The comparator turned around.
VpdAscending(a, b) == RLt(a.viewsPerDay, b.viewsPerDay)

\* (a, b) => b.viewsPerDay - a.viewsPerDay
VpdDescending(a, b) == RGt(a.viewsPerDay, b.viewsPerDay)

\* The quartile size without its minimum of one.
qSizeOfFloorOnly(n) == n \div 4

\* Math.max(1, Math.floor(n / 4))
qSizeOf(n) == IF n \div 4 > 1 THEN n \div 4 ELSE 1

topQOf(enriched) == Slice(enriched, 0, qSizeOf(Len(enriched)))

\* The bottom slice starting one video early.
bottomQOfOneMore(enriched) ==
  LET start == Len(enriched) - qSizeOf(Len(enriched)) - 1
  IN Slice(enriched, IF start < 0 THEN 0 ELSE start, Len(enriched))

\* enriched.slice(enriched.length - qSize): a negative start counts from the end
\* and is clamped to 0.
bottomQOf(enriched) ==
  LET start == Len(enriched) - qSizeOf(Len(enriched))
  IN Slice(enriched, IF start < 0 THEN 0 ELSE start, Len(enriched))

IsExploding(v) == RGeq(v.velocityScore, Rat(3, 2))
IsOutperforming(v) ==
  RGeq(v.velocityScore, Rat(11, 10)) /\ RLt(v.velocityScore, Rat(3, 2))
IsBaseline(v) ==
  RGeq(v.velocityScore, Rat(9, 10)) /\ RLt(v.velocityScore, Rat(11, 10))
IsUnderperforming(v) == RLt(v.velocityScore, Rat(9, 10))

velocityDistOf(enriched) ==
  [exploding |-> Len(Filter(IsExploding, enriched)),
   outperforming |-> Len(Filter(IsOutperforming, enriched)),
   baseline |-> Len(Filter(IsBaseline, enriched)),
   underperforming |-> Len(Filter(IsUnderperforming, enriched))]

NotNull(x) == x # Null

\* The quartile averages with a missing engagement rate counted as zero.
summaryOfNullAsZero(topQ, bottomQ) ==
  [avgDurationTop |-> avg([i \in 1..Len(topQ) |-> Num(topQ[i].durationSeconds)]),
   avgDurationBottom |->
     avg([i \in 1..Len(bottomQ) |-> Num(bottomQ[i].durationSeconds)]),
   avgEngagementTop |->
     avg([i \in 1..Len(topQ) |-> Coalesce(topQ[i].engagementRate, Num(0))]),
   avgEngagementBottom |->
     avg([i \in 1..Len(bottomQ) |-> Coalesce(bottomQ[i].engagementRate, Num(0))])]

summaryOf(topQ, bottomQ) ==
  [avgDurationTop |-> avg([i \in 1..Len(topQ) |-> Num(topQ[i].durationSeconds)]),
   avgDurationBottom |->
     avg([i \in 1..Len(bottomQ) |-> Num(bottomQ[i].durationSeconds)]),
   avgEngagementTop |->
     avg(Filter(NotNull, [i \in 1..Len(topQ) |-> topQ[i].engagementRate])),
   avgEngagementBottom |->
     avg(Filter(NotNull, [i \in 1..Len(bottomQ) |-> bottomQ[i].engagementRate]))]

\* ------------------------------------------------------------ upload cadence

DAY_NAMES ==
  <<"Sunday", "Monday", "Tuesday", "Wednesday", "Thursday", "Friday", "Saturday">>

HOUR_BUCKETS == <<"morning", "afternoon", "evening", "night">>

\* new Date(t).getDay(): the weekday in the server's time zone, 0 = Sunday.
getDay(t, zone) == ((t + zone * MsPerMinute) \div MsPerDay) % 7

\* new Date(t).getUTCHours()
getUTCHours(t) == (t \div MsPerHour) % 24

hourBucket(t) ==
  LET hour == getUTCHours(t)
  IN IF hour >= 6 /\ hour < 12 THEN "morning"
     ELSE IF hour >= 12 /\ hour < 18 THEN "afternoon"
     ELSE IF hour >= 18 /\ hour < 22 THEN "evening"
     ELSE "night"

\* The comparator with its operands exchanged.
PublishedDescending(a, b) == a.publishedAt > b.publishedAt

\* (a, b) => new Date(a.publishedAt).getTime() - new Date(b.publishedAt).getTime()
PublishedAscending(a, b) == a.publishedAt < b.publishedAt

\* The gaps, in days, between consecutive videos of the list sorted by publish
\* time; a negative gap is skipped.
NonNegative(x) == RGeq(x, Num(0))

dayGapsOf(sorted) ==
  IF Len(sorted) < 2 THEN <<>>
  ELSE Filter(NonNegative,
              [i \in 1..(Len(sorted) - 1) |->
                 Rat(sorted[i + 1].publishedAt - sorted[i].publishedAt, MsPerDay)])

\* The viewsPerDay of the videos of one group, in the list's order.
GroupVpds(Key(_), k, videos) ==
  LET InGroup(v) == Key(v) = k
      members == Filter(InGroup, videos)
  IN [i \in 1..Len(members) |-> members[i].viewsPerDay]

\* A group taking the lead from a mean as high as the best.
ReplacesOnTie(a, best) == RGeq(a, best.avg)

\* if (a > bestDayAvgVpd), if (a > bestHourAvgVpd)
Replaces(a, best) == RGt(a, best.avg)

\* The loop over the groups: a group replaces the best so far when its mean is
\* higher; an empty group is skipped (a weekday without videos has no entry).
RECURSIVE BestGroup(_, _, _, _, _)
BestGroup(Key(_), keys, videos, i, best) ==
  IF i > Len(keys) THEN best
  ELSE LET vpds == GroupVpds(Key, keys[i], videos)
           a == avg(vpds)
       IN BestGroup(Key, keys, videos, i + 1,
            IF vpds # <<>> /\ Replaces(a, best)
              THEN [key |-> keys[i], avg |-> a]
              ELSE best)

\* The caller's array sorted where it stands.
videosAfterCadenceSortedInPlace(videos) == SortBy(PublishedAscending, videos)

\* The caller's array after computeUploadCadence(videos): the function sorts
\* the copy [...videos], so the array it was handed keeps its elements and its
\* order.
videosAfterCadence(videos) == videos

computeUploadCadence(videos, zone) ==
  LET sorted == SortBy(PublishedAscending, videos)
      dayGaps == dayGapsOf(sorted)
      avgDaysBetweenUploads == Coalesce(avg(dayGaps), Num(0))
      uploadsPerWeek ==
        IF RGt(avgDaysBetweenUploads, Num(0))
          THEN ToFixed(RDiv(Num(7), avgDaysBetweenUploads), 2)
          ELSE Num(0)
      DayKey(v) == getDay(v.publishedAt, zone)
      BucketKey(v) == hourBucket(v.publishedAt)
      bestDay == BestGroup(DayKey, <<0, 1, 2, 3, 4, 5, 6>>, videos, 1,
                           [key |-> 0, avg |-> Num(-1)])
      bestBucket == BestGroup(BucketKey, HOUR_BUCKETS, videos, 1,
                              [key |-> "morning", avg |-> Num(-1)])
  IN [avgDaysBetweenUploads |-> ToFixed(avgDaysBetweenUploads, 1),
      uploadsPerWeek |-> uploadsPerWeek,
      bestDayOfWeek |-> DAY_NAMES[bestDay.key + 1],
      bestDayAvgVpd |-> ToFixed(bestDay.avg, 0),
      bestHourBucket |-> bestBucket.key,
      bestHourAvgVpd |-> ToFixed(bestBucket.avg, 0)]

\* ------------------------------------------------------------ title keywords

STOPWORDS ==
  {"the", "a", "an", "and", "or", "but", "to", "of", "in", "on", "for",
   "with", "vs", "we", "our", "you", "your", "this", "that", "is", "are",
   "was", "were"}

\* w => w.length > 1 && !STOPWORDS.has(w)
IsKeyword(w) == Len(w) > 1 /\ w \notin STOPWORDS

\* The words one title adds to the count.
keywordsOfTitle(title) ==
  Filter(IsKeyword, split(replaceOthers(toLowerCase(title), "")))

\* Where the loop meets the word w first.
FirstAt(words, w) ==
  CHOOSE i \in 1..Len(words) :
    words[i] = w /\ \A j \in 1..(i - 1) : words[j] # w

\* for (const word of words) wordFreq[word] = (wordFreq[word] ?? 0) + 1: the
\* object as the list of its properties in the order of their creation, a
\* property created when its word is met first and counting the word's
\* occurrences.
wordFreqOf(words) ==
  LET distinct == {words[i] : i \in 1..Len(words)}
      Entry(w) == [word |-> w,
                   count |-> Cardinality({i \in 1..Len(words) : words[i] = w}),
                   first |-> FirstAt(words, w)]
      entries == {Entry(w) : w \in distinct}
      listed == Array([k \in 1..Cardinality(entries) |->
                         CHOOSE e \in entries :
                           Cardinality({d \in entries : d.first < e.first}) = k - 1])
  IN Array([k \in 1..Len(listed) |->
              [word |-> listed[k].word, count |-> listed[k].count]])

\* An array index as a property name: the canonical decimal text of an integer
\* from 0 to 2^32 - 2.
IsDigits(w) == Len(w) > 0 /\ \A i \in 1..Len(w) : IsDigit(CharAt(w, i))

DigitsLess(a, b) ==
  \/ Len(a) < Len(b)
  \/ /\ Len(a) = Len(b)
     /\ \E i \in 1..Len(a) :
          /\ SubSeq(a, 1, i - 1) = SubSeq(b, 1, i - 1)
          /\ IndexIn(DIGITS, CharAt(a, i)) < IndexIn(DIGITS, CharAt(b, i))

IsArrayIndex(w) ==
  /\ IsDigits(w)
  /\ w = "0" \/ CharAt(w, 1) # "0"
  /\ ~DigitsLess("4294967294", w)

IsIndexEntry(e) == IsArrayIndex(e.word)
IsNameEntry(e) == ~IsArrayIndex(e.word)
IndexAscending(a, b) == DigitsLess(a.word, b.word)

\* Object.entries: the properties named by array indices first, in ascending
\* numeric order, then the others in the order of their creation.
ObjectEntries(freq) ==
  SortBy(IndexAscending, Filter(IsIndexEntry, freq)) \o Filter(IsNameEntry, freq)

\* (a, b) => b[1] - a[1]
CountDescending(a, b) == a.count > b.count

\* ------------------------------------------------------------ title metrics

EMOTIONAL_KEYWORDS ==
  {"crazy", "insane", "unbelievable", "worst", "best", "epic", "shocking",
   "incredible", "amazing", "legendary", "brutal", "disaster", "genius",
   "overrated", "goat", "greatest", "terrible", "awful", "perfect", "ultimate",
   "historic", "dangerous", "impossible", "unforgettable", "embarrassing",
   "dominated", "underrated", "controversial", "wild", "absurd",
   "ridiculous", "stunning", "spectacular", "unreal"}

NonEmpty(w) == Len(w) > 0

\* t.toLowerCase().replace(/[^a-z0-9\s]/g, " ").split(/\s+/).filter(Boolean)
wordsOfTitle(title) == Filter(NonEmpty, split(replaceOthers(toLowerCase(title), " ")))

hasEmotional(title) ==
  LET words == wordsOfTitle(title)
  IN \E i \in 1..Len(words) : words[i] \in EMOTIONAL_KEYWORDS

\* t.trim().split(/\s+/).length
wordCount(title) == Len(split(trim(title)))

\* ---------------------------------------------------------- format patterns

COUNTRY_TERMS ==
  <<"usa", "united states", "america", "american", "canada", "canadian",
    "uk", "england", "english", "british", "australia", "australian",
    "france", "french", "germany", "german", "spain", "spanish",
    "italy", "italian", "brazil", "brazilian", "mexico", "mexican",
    "china", "chinese", "japan", "japanese", "russia", "russian",
    "india", "indian", "argentina", "argentinian">>

FORMAT_NAMES ==
  <<"Question (Has ?)", "Is X", "Why", "Best", "vs / Versus", "Numbers",
    "Country Mention">>

\* FORMAT_PATTERNS[k].test(t)
formatTest(name, t) ==
  CASE name = "Question (Has ?)" -> includes(t, "?")
    [] name = "Is X" -> testWord(t, "is")
    [] name = "Why" -> testWord(t, "why")
    [] name = "Best" -> testWord(t, "best")
    [] name = "vs / Versus" -> testVersus(t)
    [] name = "Numbers" -> testDigit(t)
    [] name = "Country Mention" ->
         \E k \in 1..Len(COUNTRY_TERMS) : includes(toLowerCase(t), COUNTRY_TERMS[k])

\* What the functions above make of one title.
factsOfTitle(title) ==
  [keywords |-> keywordsOfTitle(title),
   formats |-> {FORMAT_NAMES[k] : k \in {j \in 1..Len(FORMAT_NAMES) : formatTest(FORMAT_NAMES[j], title)}},
   withNumbers |-> testDigit(title),
   withQuestion |-> includes(title, "?"),
   withComparison |-> testVersus(title),
   withEmotional |-> hasEmotional(title),
   chars |-> Len(title),
   words |-> wordCount(title)]

\* The titles of the records the upstream serves, and what the functions above
\* make of each of them, worked out once per title.
TITLES ==
  <<"Top 10 goals: 10 crazy goals vs 2026 world cup legends, best USA team ever?",
    "Is Messi the GOAT",
    "Why 007 beats 7 spies",
    "untitled vlog",
    "Don't stop: U.K. tour",
    "">>

TitleFacts == Array([k \in 1..Len(TITLES) |-> factsOfTitle(TITLES[k])])

FactsOf(title) == TitleFacts[CHOOSE k \in 1..Len(TITLES) : TITLES[k] = title]

\* The words of the top quartile's titles, title by title.
RECURSIVE keywordsRange(_, _, _)
keywordsRange(topQ, lo, hi) ==
  IF lo > hi THEN <<>>
  ELSE IF lo = hi THEN FactsOf(topQ[lo].title).keywords
  ELSE LET mid == (lo + hi) \div 2
       IN keywordsRange(topQ, lo, mid) \o keywordsRange(topQ, mid + 1, hi)

topTitleKeywordsOf(topQ) ==
  Slice(SortBy(CountDescending,
               ObjectEntries(wordFreqOf(Array(keywordsRange(topQ, 1, Len(topQ)))))),
        0, 10)

computeTitleMetrics(videos) ==
  IF Len(videos) = 0
    THEN [pctWithNumbers |-> Num(0), pctWithQuestion |-> Num(0),
          pctWithComparison |-> Num(0), pctWithEmotional |-> Num(0),
          avgCharLength |-> Num(0), avgWordCount |-> Num(0)]
    ELSE LET n == Len(videos)
             facts == Array([i \in 1..n |-> FactsOf(videos[i].title)])
             withNumbers == Cardinality({i \in 1..n : facts[i].withNumbers})
             withQuestion == Cardinality({i \in 1..n : facts[i].withQuestion})
             withComparison == Cardinality({i \in 1..n : facts[i].withComparison})
             withEmotional == Cardinality({i \in 1..n : facts[i].withEmotional})
             totalChars == Sum(Array([i \in 1..n |-> Num(facts[i].chars)]))
             totalWords == Sum(Array([i \in 1..n |-> Num(facts[i].words)]))
         IN [pctWithNumbers |-> Rat(withNumbers, n),
             pctWithQuestion |-> Rat(withQuestion, n),
             pctWithComparison |-> Rat(withComparison, n),
             pctWithEmotional |-> Rat(withEmotional, n),
             avgCharLength |-> RDiv(totalChars, Num(n)),
             avgWordCount |-> RDiv(totalWords, Num(n))]

\* ----------------------------------------------------------- format clusters

HasMatches(c) == c.count > 0

\* (a, b) => b.avgViewsPerDay - a.avgViewsPerDay
AvgViewsPerDayDescending(a, b) == RGt(a.avgViewsPerDay, b.avgViewsPerDay)

\* The cluster of one pattern, before the empty ones are dropped.
clusterOf(name, videos) ==
  LET Matches(v) == name \in FactsOf(v.title).formats
      matched == Filter(Matches, videos)
      avgVpd == Coalesce(avg(Array([i \in 1..Len(matched) |-> matched[i].viewsPerDay])),
                         Num(0))
      validEng == Filter(NotNull,
                         Array([i \in 1..Len(matched) |-> matched[i].engagementRate]))
      avgEng == avg(validEng)
  IN [name |-> name,
      count |-> Len(matched),
      avgViewsPerDay |-> ToFixed(avgVpd, 1),
      avgEngagementRate |-> IF avgEng # Null THEN ToFixed(avgEng, 4) ELSE Null]

\* The clusters with the empty ones among them, in the patterns' order.
computeFormatClustersUnfiltered(videos) ==
  SortBy(AvgViewsPerDayDescending,
         Array([k \in 1..Len(FORMAT_NAMES) |-> clusterOf(FORMAT_NAMES[k], videos)]))

computeFormatClusters(videos) ==
  SortBy(AvgViewsPerDayDescending,
         Filter(HasMatches,
                Array([k \in 1..Len(FORMAT_NAMES) |-> clusterOf(FORMAT_NAMES[k], videos)])))

\* ------------------------------------------------------------ the summary

\* The seconds the quartiles' durations must differ by, exclusive.
DurationGapSeconds == 30

\* Rule 2, the duration observation.
durationObservation(summaryData) ==
  LET top == summaryData.avgDurationTop
      bottom == summaryData.avgDurationBottom
      diffSec == MathAbs(RSub(top, bottom))
  IN IF top # Null /\ bottom # Null
          /\ DGt(DAbs(DSub(Double(top), Double(bottom))), Double(Num(DurationGapSeconds)))
       THEN <<[rule |-> "duration",
               topMin |-> ToFixed(RDiv(top, Num(60)), 1),
               botMin |-> ToFixed(RDiv(bottom, Num(60)), 1),
               gapMin |-> ToFixed(RDiv(diffSec, Num(60)), 1),
               direction |-> IF RGt(top, bottom) THEN "Longer" ELSE "Shorter"]>>
       ELSE <<>>

\* The share two quartiles must differ by for rules 3 and 4: the literal 0.05.
GapThreshold == Rat(5, 100)

Percent(pct) == ToFixed(RMul(pct, Num(100)), 0)

GenericExperiment == [experiment |-> "abTest"]

\* The padding stopped one short.
padExperimentsToTwo(exps) ==
  IF Len(exps) < 2 THEN Append(exps, GenericExperiment) ELSE exps

\* while (exps.length < 3) exps.push(generic)
RECURSIVE padExperiments(_)
padExperiments(exps) ==
  IF Len(exps) < 3 THEN padExperiments(Append(exps, GenericExperiment)) ELSE exps

buildAiSummary(titleAnalysis, uploadCadence, formatClusters, summaryData, velocityDist, total) ==
  LET tq == titleAnalysis.topQuartile
      bq == titleAnalysis.bottomQuartile
      outpct ==
        MathRound(RMul(Rat(velocityDist.exploding + velocityDist.outperforming, total),
                       Num(100)))
      velocityObs ==
        <<[rule |-> "velocity", outpct |-> outpct,
           exploding |-> velocityDist.exploding,
           outperforming |-> velocityDist.outperforming,
           underperforming |-> velocityDist.underperforming]>>
      numDiff == DSub(Double(tq.pctWithNumbers), Double(bq.pctWithNumbers))
      numbersObs ==
        IF DGeq(DAbs(numDiff), Double(GapThreshold))
          THEN <<[rule |-> "numbers", top |-> Percent(tq.pctWithNumbers),
                  bottom |-> Percent(bq.pctWithNumbers),
                  gap |-> Percent(RSub(tq.pctWithNumbers, bq.pctWithNumbers)),
                  positive |-> numDiff.sign > 0]>>
          ELSE <<>>
      emoDiff == DSub(Double(tq.pctWithEmotional), Double(bq.pctWithEmotional))
      emotionalObs ==
        IF DGeq(DAbs(emoDiff), Double(GapThreshold))
          THEN <<[rule |-> "emotional", top |-> Percent(tq.pctWithEmotional),
                  bottom |-> Percent(bq.pctWithEmotional),
                  positive |-> emoDiff.sign > 0]>>
          ELSE <<>>
      cadenceObs ==
        <<[rule |-> "cadence",
           avgDaysBetweenUploads |-> uploadCadence.avgDaysBetweenUploads,
           uploadsPerWeek |-> uploadCadence.uploadsPerWeek,
           bestDayOfWeek |-> uploadCadence.bestDayOfWeek,
           bestHourBucket |-> uploadCadence.bestHourBucket]>>
      formatObs ==
        IF Len(formatClusters) > 0
          THEN <<[rule |-> "format", best |-> formatClusters[1].name,
                  bestAvg |-> ToFixed(formatClusters[1].avgViewsPerDay, 0),
                  count |-> formatClusters[1].count,
                  second |-> IF Len(formatClusters) > 1
                               THEN <<formatClusters[2].name>> ELSE <<>>]>>
          ELSE <<>>
      durationExp ==
        IF summaryData.avgDurationTop # Null
          THEN <<[experiment |-> "duration",
                  topMin |-> MathRound(RDiv(summaryData.avgDurationTop, Num(60)))]>>
          ELSE <<>>
      slotExp ==
        <<[experiment |-> "slot", bestDayOfWeek |-> uploadCadence.bestDayOfWeek,
           bestHourBucket |-> uploadCadence.bestHourBucket,
           bestDayAvgVpd |-> uploadCadence.bestDayAvgVpd]>>
      formatExp ==
        IF Len(formatClusters) > 0
          THEN <<[experiment |-> "format", name |-> formatClusters[1].name,
                  avg |-> ToFixed(formatClusters[1].avgViewsPerDay, 0)]>>
          ELSE <<>>
      numbersExp ==
        IF DGeq(DAbs(numDiff), Double(GapThreshold)) /\ numDiff.sign > 0
          THEN <<[experiment |-> "numbers", top |-> Percent(tq.pctWithNumbers),
                  bottom |-> Percent(bq.pctWithNumbers)]>>
          ELSE <<>>
      emotionalExp ==
        IF DGeq(DAbs(emoDiff), Double(GapThreshold))
          THEN <<[experiment |-> "emotional", lead |-> emoDiff.sign > 0]>>
          ELSE <<>>
      exps == padExperiments(durationExp \o slotExp \o formatExp \o numbersExp
                               \o emotionalExp)
  IN [keyObservations |->
        velocityObs \o durationObservation(summaryData) \o numbersObs
          \o emotionalObs \o cadenceObs \o formatObs,
      recommendedExperiments |-> Slice(exps, 0, 5)]

\* ------------------------------------------------- steps 4 and 5, the report

\* The handler's locals from Step 4 to the response.
Analyse(raw, now, zone) ==
  LET baseVideos == Array([i \in 1..Len(raw) |-> BaseVideo(raw[i], now)])
      channelAvgVpd == ChannelAvgVpd(baseVideos)
      enriched ==
        SortBy(VpdDescending,
               Array([i \in 1..Len(baseVideos) |->
                        Enrich(baseVideos[i], channelAvgVpd)]))
      topQ == topQOf(enriched)
      bottomQ == bottomQOf(enriched)
      velocityDist == velocityDistOf(enriched)
      summaryData == summaryOf(topQ, bottomQ)
      titleAnalysis == [topQuartile |-> computeTitleMetrics(topQ),
                        bottomQuartile |-> computeTitleMetrics(bottomQ)]
      uploadCadence == computeUploadCadence(enriched, zone)
      enrichedAtResponse == videosAfterCadence(enriched)
      formatClusters == computeFormatClusters(enrichedAtResponse)
  IN [now |-> now,
      channelAvgVpd |-> channelAvgVpd,
      enriched |-> enriched,
      enrichedAtResponse |-> enrichedAtResponse,
      topQ |-> topQ,
      bottomQ |-> bottomQ,
      velocityDist |-> velocityDist,
      summaryData |-> summaryData,
      topTitleKeywords |-> topTitleKeywordsOf(topQ),
      titleAnalysis |-> titleAnalysis,
      uploadCadence |-> uploadCadence,
      formatClusters |-> formatClusters,
      aiSummary |-> buildAiSummary(titleAnalysis, uploadCadence, formatClusters,
                                   summaryData, velocityDist,
                                   Len(enrichedAtResponse))]

\* NextResponse.json({...}) of the success path.
ReportOf(w) ==
  [status |-> 200,
   kind |-> "report",
   channelAvgVpd |-> ToFixed(w.channelAvgVpd, 1),
   summary |-> [avgDurationTop |-> w.summaryData.avgDurationTop,
                avgDurationBottom |-> w.summaryData.avgDurationBottom,
                avgEngagementTop |-> w.summaryData.avgEngagementTop,
                avgEngagementBottom |-> w.summaryData.avgEngagementBottom,
                topTitleKeywords |-> w.topTitleKeywords,
                velocityDistribution |-> w.velocityDist],
   topVideos |-> Slice(w.enrichedAtResponse, 0, 15),
   bottomVideos |-> SliceLast(w.enrichedAtResponse, 15),
   titleAnalysis |-> w.titleAnalysis,
   uploadCadence |-> w.uploadCadence,
   formatClusters |-> w.formatClusters,
   aiSummary |-> w.aiSummary]

\* ------------------------------------------------------------ the upstream

\* The capture times Date.now() returns, ten and eleven days into the model's
\* time line.
NowA == 864000000
NowB == 950340000
Clock == {NowA, NowB}

ServerZones == {0, -300}

\* The channels the upstream serves in the fetch specification.  A channel has
\* `uploads` videos in its playlist; the record of a video is a function of its
\* id (scheme); quirk says how the upstream departs from the expected answers:
\*   blankItem    the first item of every page carries no video id
\*   overDeliver  a page carries one item more than asked for
\*   emptyPages   every page carries a continuation token and no item
\*   noItems      the detail calls answer without items
Schemes == {"ramp", "flat", "zero"}
Quirks == {"blankItem", "overDeliver", "emptyPages", "noItems"}
Channel(s, q, u) == [scheme |-> s, quirk |-> q, uploads |-> u, served |-> 0]
Channels ==
  {Channel(s, "none", u) : s \in Schemes, u \in {0, 1, 3, 9, 60, 250}}
  \cup {Channel("ramp", q, u) : q \in Quirks, u \in {3, 60, 250}}

Upstream(scheme, id) ==
  IF scheme = "ramp" THEN
    [id |-> id, title |-> TITLES[2 + (id % 3)],
     publishedAt |-> NowA - MsPerDay - MsPerMinute * id,
     viewCount |-> IF id % 5 = 0 THEN 0 ELSE id,
     likeCount |-> (id % 2) * id, commentCount |-> Missing,
     duration |-> Dur(Missing, id % 7, 30)]
  ELSE IF scheme = "flat" THEN
    [id |-> id, title |-> TITLES[1], publishedAt |-> NowA - 3 * MsPerHour,
     viewCount |-> 7, likeCount |-> 1, commentCount |-> 1,
     duration |-> Dur(Missing, 10, Missing)]
  ELSE
    [id |-> id, title |-> "", publishedAt |-> NowA - 2 * MsPerDay,
     viewCount |-> Missing, likeCount |-> Missing, commentCount |-> Missing,
     duration |-> NoDuration]

\* ---------------------------------------------------------------- the handler

MAX_RESULTS_CAP == 200
PAGE_MAX == 50
BATCH_SIZE == 50

\* The page requests one run of the model may issue.
MaxPages == 5

NoCall == [kind |-> "none"]
NoToken == 0
NoResponse == [kind |-> "none"]
NoWork == [now |-> 0]

ErrorResponse(status, error) == [status |-> status, kind |-> "error", error |-> error]

\* The maxResults query parameter: absent, a text parseInt cannot read, or the
\* decimal text of an integer.
MaxResultsInputs == {-1, 0, 2, 51, 201}
ParamValues ==
  {[kind |-> "absent"], [kind |-> "text"]}
    \cup {[kind |-> "int", value |-> k] : k \in MaxResultsInputs}

\* parseInt(searchParams.get("maxResults") ?? "100")
parseMaxResults(param) ==
  IF param.kind = "absent" THEN Num(100)
  ELSE IF param.kind = "text" THEN NaN
  ELSE Num(param.value)

\* The parsed parameter taken as it is, without the cap.
clampMaxResultsUncapped(param) == parseMaxResults(param)

clampMaxResults(param) == MathMin(parseMaxResults(param), Num(MAX_RESULTS_CAP))

\* How the upstream may answer a call: a success, a non-success status with a
\* body, or no answer at all (fetch rejects).
Failures ==
  {[kind |-> "http_error", status |-> 403, body |-> "quotaExceeded"],
   [kind |-> "http_error", status |-> 500, body |-> "backendError"],
   [kind |-> "network_error"]}

\* ytFetch's throw, or fetch's own, as the catch block reports it.
ErrorMessage(failure) ==
  IF failure.kind = "http_error"
    THEN [text |-> "YouTube API", status |-> failure.status, body |-> failure.body]
    ELSE [text |-> "fetch failed"]

Init ==
  /\ pc = "start"
  /\ tz \in ServerZones
  /\ maxResults = NaN
  /\ videoIds = <<>>
  /\ pageToken = NoToken
  /\ idx = 0
  /\ rawVideos = <<>>
  /\ inflight = NoCall
  /\ work = NoWork
  /\ response = NoResponse
  /\ upstream \in Channels
  /\ hist = [calls |-> 0, pageCalls |-> 0, detailCalls |-> 0,
             failed |-> FALSE, callsAtFailure |-> 0, failure |-> NoCall,
             noUploads |-> FALSE, overDelivered |-> FALSE, param |-> NoCall]

Issue(call) ==
  /\ inflight' = call
  /\ hist' = [hist EXCEPT !.calls = @ + 1,
                          !.pageCalls = @ + (IF call.kind = "playlistItems" THEN 1 ELSE 0),
                          !.detailCalls = @ + (IF call.kind = "videos" THEN 1 ELSE 0)]

\* A failed call whose answer is read like a success without items: the run
\* goes on to the detail loop.
AbortSwallowed(failure) ==
  /\ pc' = "detailLoop"
  /\ inflight' = NoCall
  /\ UNCHANGED response
  /\ hist' = [hist EXCEPT !.failed = TRUE, !.callsAtFailure = hist.calls,
                          !.failure = failure]

\* The catch block: a failed call ends the run with status 500.
Abort(failure) ==
  /\ pc' = "done"
  /\ inflight' = NoCall
  /\ response' = ErrorResponse(500, ErrorMessage(failure))
  /\ hist' = [hist EXCEPT !.failed = TRUE, !.callsAtFailure = hist.calls,
                          !.failure = failure]

\* GET up to the channel lookup: the two parameter checks, then the call.
Start ==
  /\ pc = "start"
  /\ \E apiKey \in BOOLEAN, channelId \in BOOLEAN, param \in ParamValues :
       IF ~apiKey THEN
         /\ pc' = "done"
         /\ response' = ErrorResponse(500, "YOUTUBE_API_KEY is not set")
         /\ UNCHANGED <<maxResults, inflight, hist>>
       ELSE IF ~channelId THEN
         /\ pc' = "done"
         /\ maxResults' = clampMaxResults(param)
         /\ response' = ErrorResponse(400, "channelId is required")
         /\ hist' = [hist EXCEPT !.param = param]
         /\ UNCHANGED inflight
       ELSE
         /\ pc' = "channel"
         /\ maxResults' = clampMaxResults(param)
         /\ inflight' = [kind |-> "channels"]
         /\ hist' = [hist EXCEPT !.calls = @ + 1, !.param = param]
         /\ UNCHANGED response
  /\ UNCHANGED <<tz, videoIds, pageToken, idx, rawVideos, work, upstream>>

\* Step 1: the channel lookup answers.
ChannelFails ==
  /\ pc = "channel"
  /\ \E failure \in Failures : Abort(failure)
  /\ UNCHANGED <<tz, maxResults, videoIds, pageToken, idx, rawVideos, work, upstream>>

\* The lookup's missing playlist id going unnoticed: the page loop starts.
ChannelWithoutUploadsUnchecked ==
  /\ pc = "channel"
  /\ pc' = "pageLoop"
  /\ inflight' = NoCall
  /\ hist' = [hist EXCEPT !.noUploads = TRUE]
  /\ UNCHANGED <<tz, maxResults, videoIds, pageToken, idx, rawVideos, work,
                 response, upstream>>

ChannelWithoutUploads ==
  /\ pc = "channel"
  /\ pc' = "done"
  /\ inflight' = NoCall
  /\ response' = ErrorResponse(404, "Could not find uploads playlist for this channel")
  /\ hist' = [hist EXCEPT !.noUploads = TRUE]
  /\ UNCHANGED <<tz, maxResults, videoIds, pageToken, idx, rawVideos, work, upstream>>

ChannelFound ==
  /\ pc = "channel"
  /\ pc' = "pageLoop"
  /\ inflight' = NoCall
  /\ videoIds' = <<>>
  /\ pageToken' = NoToken
  /\ UNCHANGED <<tz, maxResults, idx, rawVideos, work, response, upstream, hist>>

\* Math.min(maxResults - videoIds.length, 50)
pageSizeOf(cap, collected) == Floor(MathMin(RSub(cap, Num(collected)), Num(PAGE_MAX)))

\* Step 2, the loop's head: another page is requested while fewer ids than
\* maxResults are collected.
PageRequest ==
  /\ pc = "pageLoop"
  /\ RLt(Num(Len(videoIds)), maxResults)
  /\ hist.pageCalls < MaxPages
  /\ pc' = "page"
  /\ Issue([kind |-> "playlistItems",
            maxResults |-> pageSizeOf(maxResults, Len(videoIds)),
            pageToken |-> pageToken])
  /\ UNCHANGED <<tz, maxResults, videoIds, pageToken, idx, rawVideos, work,
                 response, upstream>>

PagesDone ==
  /\ pc = "pageLoop"
  /\ ~RLt(Num(Len(videoIds)), maxResults)
  /\ pc' = "detailLoop"
  /\ idx' = 0
  /\ rawVideos' = <<>>
  /\ UNCHANGED <<tz, maxResults, videoIds, pageToken, inflight, work, response,
                 upstream, hist>>

PageFails ==
  /\ pc = "page"
  /\ \E failure \in Failures : Abort(failure)
  /\ UNCHANGED <<tz, maxResults, videoIds, pageToken, idx, rawVideos, work, upstream>>

Min(a, b) == IF a < b THEN a ELSE b

\* The page the upstream answers a request for `size` items with: the number of
\* items, how many of them lack a video id, and whether a token follows.
PageAnswer(channel, size) ==
  LET remaining == channel.uploads - channel.served
      count == IF channel.quirk = "emptyPages" THEN 0
               ELSE IF channel.quirk = "overDeliver" THEN Min(size + 1, remaining)
               ELSE Min(size, remaining)
  IN [count |-> count,
      blank |-> IF channel.quirk = "blankItem" /\ count > 0 THEN 1 ELSE 0,
      more |-> channel.quirk = "emptyPages" \/ remaining > count]

\* A page answers: the ids of its items are appended, the token is kept, and
\* the loop ends when there is none.
PageResponse ==
  /\ pc = "page"
  /\ LET page == PageAnswer(upstream, inflight.maxResults)
     IN /\ videoIds' = videoIds \o
             [i \in 1..(page.count - page.blank) |-> upstream.served + page.blank + i]
        /\ upstream' = [upstream EXCEPT !.served = @ + page.count]
        /\ pageToken' = IF page.more THEN hist.pageCalls ELSE NoToken
        /\ hist' = [hist EXCEPT !.overDelivered = @ \/ page.count > inflight.maxResults]
        /\ IF page.more
             THEN pc' = "pageLoop" /\ UNCHANGED <<idx, rawVideos>>
             ELSE pc' = "detailLoop" /\ idx' = 0 /\ rawVideos' = <<>>
  /\ inflight' = NoCall
  /\ UNCHANGED <<tz, maxResults, work, response>>

\* Every batch cut from the head of the list.
batchOfFromHead(ids, i) == Slice(ids, 0, BATCH_SIZE)

\* Step 3: the detail batches, 50 ids each.
batchOf(ids, i) == Slice(ids, i, i + BATCH_SIZE)

DetailRequest ==
  /\ pc = "detailLoop"
  /\ idx < Len(videoIds)
  /\ pc' = "detail"
  /\ Issue([kind |-> "videos", ids |-> batchOf(videoIds, idx)])
  /\ UNCHANGED <<tz, maxResults, videoIds, pageToken, idx, rawVideos, work,
                 response, upstream>>

DetailFails ==
  /\ pc = "detail"
  /\ \E failure \in Failures : Abort(failure)
  /\ UNCHANGED <<tz, maxResults, videoIds, pageToken, idx, rawVideos, work, upstream>>

\* A batch answers with the records of its ids, or without items.
DetailResponse ==
  /\ pc = "detail"
  /\ rawVideos' = rawVideos \o
       (IF upstream.quirk = "noItems" THEN <<>>
        ELSE [i \in 1..Len(inflight.ids) |-> Upstream(upstream.scheme, inflight.ids[i])])
  /\ idx' = idx + BATCH_SIZE
  /\ pc' = "detailLoop"
  /\ inflight' = NoCall
  /\ UNCHANGED <<tz, maxResults, videoIds, pageToken, work, response, upstream, hist>>

\* Steps 4 and 5 and the response.
Compute ==
  /\ pc = "detailLoop"
  /\ idx >= Len(videoIds)
  /\ \E now \in Clock :
       /\ work' = Analyse(rawVideos, now, tz)
       /\ response' = ReportOf(work')
  /\ pc' = "done"
  /\ UNCHANGED <<tz, maxResults, videoIds, pageToken, idx, rawVideos, inflight,
                 upstream, hist>>

Next ==
  \/ Start
  \/ ChannelFails
  \/ ChannelWithoutUploads
  \/ ChannelFound
  \/ PageRequest
  \/ PagesDone
  \/ PageFails
  \/ PageResponse
  \/ DetailRequest
  \/ DetailFails
  \/ DetailResponse
  \/ Compute

Spec == Init /\ [][Next]_vars

\* ------------------------------------------- the metrics on fetched records

\* The longest list of fetched records the metrics specification starts from.
MaxVideos == 4

\* Raw records as the detail calls return them: counts as decimal texts or
\* absent, publish times around the capture times, duration tokens with and
\* without components.
Catalogue ==
  {[id |-> 0, title |-> TITLES[1], publishedAt |-> NowA - MsPerMinute,
    viewCount |-> 15, likeCount |-> 3, commentCount |-> 0,
    duration |-> Dur(Missing, 10, Missing)],
   [id |-> 0, title |-> TITLES[2], publishedAt |-> NowA + MsPerHour,
    viewCount |-> 11, likeCount |-> 0, commentCount |-> 0,
    duration |-> Dur(Missing, 5, 30)],
   [id |-> 0, title |-> TITLES[3], publishedAt |-> NowA - MsPerDay,
    viewCount |-> 9, likeCount |-> 1, commentCount |-> 2,
    duration |-> Dur(1, Missing, Missing)],
   [id |-> 0, title |-> TITLES[4], publishedAt |-> NowA - 2 * MsPerDay,
    viewCount |-> 10, likeCount |-> 5, commentCount |-> Missing,
    duration |-> NoDuration],
   [id |-> 0, title |-> TITLES[5], publishedAt |-> NowA - 2 * MsPerDay + MsPerMinute,
    viewCount |-> 0, likeCount |-> 2, commentCount |-> 1,
    duration |-> Dur(Missing, Missing, 30)],
   [id |-> 0, title |-> TITLES[6],
    publishedAt |-> NowA - 3 * MsPerDay + 7 * MsPerHour,
    viewCount |-> Missing, likeCount |-> Missing, commentCount |-> Missing,
    duration |-> Dur(Missing, 2, 0)]}

\* Four videos of 400, 300, 200 and 100 views a day, 600, 500, 400 and 300
\* seconds long.
DurationScenario ==
  <<[id |-> 0, title |-> TITLES[4], publishedAt |-> NowA - MsPerMinute,
     viewCount |-> 400, likeCount |-> 4, commentCount |-> 0,
     duration |-> Dur(Missing, 10, Missing)],
    [id |-> 0, title |-> TITLES[4], publishedAt |-> NowA - MsPerMinute,
     viewCount |-> 300, likeCount |-> 3, commentCount |-> 0,
     duration |-> Dur(Missing, 8, 20)],
    [id |-> 0, title |-> TITLES[4], publishedAt |-> NowA - MsPerMinute,
     viewCount |-> 200, likeCount |-> 2, commentCount |-> 0,
     duration |-> Dur(Missing, 6, 40)],
    [id |-> 0, title |-> TITLES[4], publishedAt |-> NowA - MsPerMinute,
     viewCount |-> 100, likeCount |-> 1, commentCount |-> 0,
     duration |-> Dur(Missing, 5, Missing)]>>

\* Eighty videos ranked by their position, all published at one time.  Of the
\* 20 of the top quartile 3 have a digit in the title and 2 an emotional word,
\* of the 20 of the bottom quartile 2 and 1: both shares differ by 5 points.
GapScenario ==
  [i \in 1..80 |->
     [id |-> 0,
      title |-> IF i \in {1, 2, 3, 61, 62} THEN TITLES[3]
                ELSE IF i \in {4, 5, 63} THEN TITLES[2]
                ELSE TITLES[4],
      publishedAt |-> NowA - MsPerMinute,
      viewCount |-> 100 - i, likeCount |-> 0, commentCount |-> 0,
      duration |-> Dur(Missing, 10, Missing)]]

\* Two videos of 5999 and 2001 views a day: the first scores 1.49975, which
\* toFixed(3) turns into 1.5.
RoundingScenario ==
  <<[id |-> 0, title |-> TITLES[4], publishedAt |-> NowA - MsPerMinute,
     viewCount |-> 5999, likeCount |-> 0, commentCount |-> 0,
     duration |-> Dur(Missing, 10, Missing)],
    [id |-> 0, title |-> TITLES[4], publishedAt |-> NowA - MsPerMinute,
     viewCount |-> 2001, likeCount |-> 0, commentCount |-> 0,
     duration |-> Dur(Missing, 10, Missing)]>>

\* Twelve videos ranked by their position: the three of the top quartile last
\* 61, 61 and 62 seconds, the three of the bottom quartile 31, 31 and 32, so
\* that the quartile averages, 184/3 and 94/3, are 30 seconds apart.
ThirdsScenario ==
  [i \in 1..12 |->
     [id |-> 0, title |-> TITLES[4], publishedAt |-> NowA - MsPerMinute,
      viewCount |-> 100 - i, likeCount |-> 0, commentCount |-> 0,
      duration |-> IF i \in {1, 2} THEN Dur(Missing, 1, 1)
                   ELSE IF i = 3 THEN Dur(Missing, 1, 2)
                   ELSE IF i \in {10, 11} THEN Dur(Missing, Missing, 31)
                   ELSE IF i = 12 THEN Dur(Missing, Missing, 32)
                   ELSE Dur(Missing, 10, Missing)]]

MetricsLists ==
  UNION {[1..n -> Catalogue] : n \in 0..MaxVideos}
    \cup {DurationScenario, GapScenario, RoundingScenario, ThirdsScenario}

\* The detail calls that fetch n records.
BatchesOf(n) == (n + BATCH_SIZE - 1) \div BATCH_SIZE

\* The handler after Step 3, the records of `list` fetched.
MetricsInit ==
  /\ pc = "detailLoop"
  /\ tz \in ServerZones
  /\ maxResults = Num(100)
  /\ pageToken = NoToken
  /\ inflight = NoCall
  /\ work = NoWork
  /\ response = NoResponse
  /\ \E list \in MetricsLists :
       /\ videoIds = [i \in 1..Len(list) |-> i]
       /\ rawVideos = [i \in 1..Len(list) |-> [list[i] EXCEPT !.id = i]]
       /\ idx = BATCH_SIZE * BatchesOf(Len(list))
       /\ upstream = [scheme |-> "catalogue", quirk |-> "none",
                      uploads |-> Len(list), served |-> Len(list)]
       /\ hist = [calls |-> 2 + BatchesOf(Len(list)),
                  pageCalls |-> 1,
                  detailCalls |-> BatchesOf(Len(list)),
                  failed |-> FALSE, callsAtFailure |-> 0, failure |-> NoCall,
                  noUploads |-> FALSE, overDelivered |-> FALSE,
                  param |-> [kind |-> "absent"]]

SpecMetrics == MetricsInit /\ [][Compute]_vars

\* ------------------------------------------------------------------ claims

Reported == pc = "done" /\ response.kind = "report"

\* The unrounded velocity score of a ranked video.
ScoreOf(v) == RDiv(v.viewsPerDay, work.channelAvgVpd)

\* C1: getVelocityLabel maps a score to its band, the lower bound of a band
\* included: at least 1.5 is "Exploding", from 1.1 up to 1.5 "Outperforming",
\* from 0.9 up to 1.1 "Baseline", below 0.9 "Underperforming"; every score has
\* one of the four labels.
C1_LabelBands ==
  Reported =>
    \A i \in 1..Len(work.enriched) :
      LET v == work.enriched[i]
          score == ScoreOf(v)
      IN /\ v.velocityLabel \in {"Exploding", "Outperforming", "Baseline", "Underperforming"}
         /\ RGeq(score, Rat(3, 2)) => v.velocityLabel = "Exploding"
         /\ RGeq(score, Rat(11, 10)) /\ RLt(score, Rat(3, 2))
              => v.velocityLabel = "Outperforming"
         /\ RGeq(score, Rat(9, 10)) /\ RLt(score, Rat(11, 10))
              => v.velocityLabel = "Baseline"
         /\ RLt(score, Rat(9, 10)) => v.velocityLabel = "Underperforming"

\* A report with a video on each of the three boundaries and one below 0.9.
C1_Witness ==
  /\ Reported
  /\ \E i \in 1..Len(work.enriched) :
       /\ ScoreOf(work.enriched[i]) = Rat(3, 2)
       /\ work.enriched[i].velocityLabel = "Exploding"
  /\ \E j \in 1..Len(work.enriched) :
       /\ ScoreOf(work.enriched[j]) = Rat(11, 10)
       /\ work.enriched[j].velocityLabel = "Outperforming"
  /\ \E k \in 1..Len(work.enriched) :
       /\ ScoreOf(work.enriched[k]) = Rat(9, 10)
       /\ work.enriched[k].velocityLabel = "Baseline"
  /\ \E l \in 1..Len(work.enriched) :
       /\ RLt(ScoreOf(work.enriched[l]), Rat(9, 10))
       /\ work.enriched[l].velocityLabel = "Underperforming"

\* C2: when the channel average viewsPerDay is 0 the denominator counts as at
\* least 1, so every velocityScore is a number, never NaN.
C2_ScoreNeverNaN ==
  Reported => \A i \in 1..Len(work.enriched) : work.enriched[i].velocityScore # NaN

\* C3: daysSincePublish is an integer of at least 1, the whole days between the
\* publish time and the capture time when that is a day or more and 1 otherwise
\* (a publish time seconds before the capture time or after it included), and
\* viewsPerDay is the finite quotient of the views by it.
C3_DaysAtLeastOne ==
  Reported =>
    \A i \in 1..Len(work.enriched) :
      LET v == work.enriched[i]
          d == v.daysSincePublish
          age == work.now - v.publishedAt
      IN /\ d \in Nat /\ d >= 1
         /\ age < MsPerDay => d = 1
         /\ age >= MsPerDay => d * MsPerDay <= age /\ age < (d + 1) * MsPerDay
         /\ IsNum(v.viewsPerDay)
         /\ v.viewsPerDay[1] * d = v.viewCount * v.viewsPerDay[2]

\* A report with a video published after the capture time, one published within
\* the minute before it and one two days old or older.
C3_Witness ==
  /\ Reported
  /\ \E i, j, k \in 1..Len(work.enriched) :
       /\ work.enriched[i].publishedAt > work.now
       /\ work.enriched[j].publishedAt < work.now
       /\ work.now - work.enriched[j].publishedAt <= MsPerMinute
       /\ work.enriched[k].daysSincePublish >= 2

\* C4: engagementRate is null exactly when viewCount is 0 and (likeCount +
\* commentCount) / viewCount otherwise; it is never 0 or NaN for a video
\* without views.
C4_EngagementNullIffNoViews ==
  Reported =>
    \A i \in 1..Len(work.enriched) :
      LET v == work.enriched[i]
          e == v.engagementRate
      IN /\ (e = Null) <=> (v.viewCount = 0)
         /\ v.viewCount > 0 =>
              /\ IsNum(e)
              /\ e[1] * v.viewCount = (v.likeCount + v.commentCount) * e[2]

\* A report with a video without views that has likes, and a video with views
\* and a positive rate.
C4_Witness ==
  /\ Reported
  /\ \E i, j \in 1..Len(work.enriched) :
       /\ work.enriched[i].viewCount = 0
       /\ work.enriched[i].likeCount > 0
       /\ work.enriched[i].engagementRate = Null
       /\ work.enriched[j].viewCount > 0
       /\ RGt(work.enriched[j].engagementRate, Num(0))

\* C5: for n >= 1 ranked videos the top quartile is the first and the bottom
\* quartile the last max(1, floor(n/4)) videos of the list ranked descending by
\* viewsPerDay; both have that size, and for n = 1 both are the single video.
C5_QuartileSlices ==
  Reported =>
    LET ranked == work.enriched
        n == Len(ranked)
        q == IF n \div 4 >= 1 THEN n \div 4 ELSE 1
    IN n >= 1 =>
         /\ \A i \in 1..(n - 1) :
              ~RLt(ranked[i].viewsPerDay, ranked[i + 1].viewsPerDay)
         /\ Len(work.topQ) = q
         /\ Len(work.bottomQ) = q
         /\ \A i \in 1..q :
              /\ work.topQ[i] = ranked[i]
              /\ work.bottomQ[i] = ranked[n - q + i]
         /\ n = 1 => work.topQ = <<ranked[1]>> /\ work.bottomQ = <<ranked[1]>>

\* A report on at least eight videos of distinct viewsPerDay, the quartiles
\* two or more videos each.
C5_Witness ==
  /\ Reported
  /\ Len(work.enriched) >= 8
  /\ Len(work.topQ) >= 2
  /\ Len(work.bottomQ) = Len(work.topQ)
  /\ RGt(work.topQ[1].viewsPerDay, work.bottomQ[1].viewsPerDay)

\* The fetch went through (the lookup found the playlist, no call failed) and
\* brought no video record.
FetchedNothing ==
  /\ pc = "done"
  /\ hist.calls >= 1
  /\ ~hist.failed
  /\ ~hist.noUploads
  /\ rawVideos = <<>>

\* C6: when the uploads playlist yields no video, or the detail calls return no
\* items, the request ends in an error response, not a report.
C6_NoVideosIsError == FetchedNothing => response.kind = "error"

IsZeroOrNull(x) == x = Null \/ x = Num(0)

\* C7: for an empty video list the run ends in an error, or in a report whose
\* numbers are all zero (or null) and whose arrays are all empty; channelAvgVpd,
\* bestDayAvgVpd and bestHourAvgVpd in particular are not non-zero.
C7_EmptyListAllZero ==
  FetchedNothing =>
    \/ response.kind = "error"
    \/ /\ response.channelAvgVpd = Num(0)
       /\ response.uploadCadence.bestDayAvgVpd = Num(0)
       /\ response.uploadCadence.bestHourAvgVpd = Num(0)
       /\ response.uploadCadence.avgDaysBetweenUploads = Num(0)
       /\ response.uploadCadence.uploadsPerWeek = Num(0)
       /\ response.topVideos = <<>>
       /\ response.bottomVideos = <<>>
       /\ IsZeroOrNull(response.summary.avgDurationTop)
       /\ IsZeroOrNull(response.summary.avgDurationBottom)
       /\ IsZeroOrNull(response.summary.avgEngagementTop)
       /\ IsZeroOrNull(response.summary.avgEngagementBottom)
       /\ response.summary.velocityDistribution =
            [exploding |-> 0, outperforming |-> 0, baseline |-> 0,
             underperforming |-> 0]

\* C8: once a call fails the run is over: no call is issued after it (the
\* failed one is not issued again), none is awaited, and the caller has a single
\* error response with status 500, the upstream's status and body in it, and no
\* field of a report.
C8_FailureAborts ==
  hist.failed =>
    /\ pc = "done"
    /\ inflight = NoCall
    /\ hist.calls = hist.callsAtFailure
    /\ DOMAIN response = {"status", "kind", "error"}
    /\ response.kind = "error"
    /\ response.status = 500
    /\ hist.failure.kind = "http_error" =>
         /\ response.error.status = hist.failure.status
         /\ response.error.body = hist.failure.body

\* A detail batch answered with a non-success status after the pages were read.
C8_Witness ==
  /\ hist.failed
  /\ hist.failure.kind = "http_error"
  /\ hist.pageCalls >= 2
  /\ hist.detailCalls >= 1
  /\ hist.callsAtFailure = 1 + hist.pageCalls + hist.detailCalls

\* C9: a lookup that succeeds without an uploads playlist id ends the run with
\* the 404 "not found" error, which no failed call produces, and no page or
\* detail call is issued.
C9_NoUploadsIs404 ==
  /\ hist.noUploads =>
       /\ pc = "done"
       /\ response = ErrorResponse(404, "Could not find uploads playlist for this channel")
       /\ hist.calls = 1
       /\ hist.pageCalls = 0
       /\ hist.detailCalls = 0
       /\ inflight = NoCall
  /\ hist.failed => response.status = 500 /\ response.status # 404
  /\ (response.kind = "error" /\ response.status = 404) => hist.noUploads /\ ~hist.failed

C9_Witness ==
  /\ hist.noUploads
  /\ pc = "done"
  /\ response.status = 404

\* The parameter has been read.
ParamRead == hist.param.kind # "none"

PageAndBatchSizes ==
  /\ inflight.kind = "playlistItems" =>
       inflight.maxResults >= 1 /\ inflight.maxResults <= 50
  /\ inflight.kind = "videos" => Len(inflight.ids) >= 1 /\ Len(inflight.ids) <= 50

ClampedAt200 ==
  (ParamRead /\ hist.param.kind = "int" /\ hist.param.value > 200)
    => maxResults = Num(200)

\* C10 as stated: a maxResults above 200 is clamped to 200, and for any
\* maxResults the ids collected never exceed min(maxResults, 200) provided no
\* page carries more items than asked; a page asks for at most 50 items and a
\* batch carries at most 50 ids.
C10_Original ==
  /\ ClampedAt200
  /\ PageAndBatchSizes
  /\ (ParamRead /\ ~hist.overDelivered) =>
       ~RGt(Num(Len(videoIds)), MathMin(maxResults, Num(200)))

\* C10, amended: the ids collected never exceed max(0, min(maxResults, 200)):
\* none is collected when maxResults is negative, zero or not a number.
C10_CapRespected ==
  /\ ClampedAt200
  /\ PageAndBatchSizes
  /\ (ParamRead /\ ~hist.overDelivered) =>
       IF IsNum(maxResults) /\ RGeq(maxResults, Num(0))
         THEN RGeq(MathMin(maxResults, Num(200)), Num(Len(videoIds)))
         ELSE videoIds = <<>>

\* A request for 201 results on a channel of more videos: 200 ids collected in
\* pages of 50, and a report.
C10_Witness ==
  /\ Reported
  /\ hist.param = [kind |-> "int", value |-> 201]
  /\ ~hist.overDelivered
  /\ Len(videoIds) = 200
  /\ hist.pageCalls = 4
  /\ hist.detailCalls = 4

\* The weekday of a publish time in UTC, 0 for Sunday.
UtcDay(v) == getDay(v.publishedAt, 0)

\* All ranked videos were published on one UTC weekday in one UTC hour bucket.
OneUtcSlot ==
  \A i \in 1..Len(work.enriched) :
    /\ UtcDay(work.enriched[i]) = UtcDay(work.enriched[1])
    /\ hourBucket(work.enriched[i].publishedAt) = hourBucket(work.enriched[1].publishedAt)

\* C12: the weekday grouping uses the UTC weekday of the publish time: whatever
\* the server's time zone, when all videos were published on one UTC weekday W
\* in one UTC hour bucket B, bestDayOfWeek is W, bestHourBucket is B and
\* bestDayAvgVpd is the mean of all viewsPerDay (as a whole number).
C12_UtcWeekday ==
  (Reported /\ Len(work.enriched) >= 1 /\ OneUtcSlot) =>
    LET first == work.enriched[1]
        mean == avg([i \in 1..Len(work.enriched) |-> work.enriched[i].viewsPerDay])
    IN /\ response.uploadCadence.bestDayOfWeek = DAY_NAMES[UtcDay(first) + 1]
       /\ response.uploadCadence.bestHourBucket = hourBucket(first.publishedAt)
       /\ response.uploadCadence.bestDayAvgVpd = ToFixed(mean, 0)

\* The mean of viewCount / daysSincePublish over the ranked videos.
MeanVpd ==
  RDiv(Sum([i \in 1..Len(work.enriched) |->
              Rat(work.enriched[i].viewCount, work.enriched[i].daysSincePublish)]),
       Num(Len(work.enriched)))

\* C16: the reported channelAvgVpd is the arithmetic mean of viewCount /
\* daysSincePublish over all fetched videos, rounded to one decimal, and that
\* mean is the denominator of every video's velocity score.
C16_ChannelAvgIsMean ==
  (Reported /\ Len(work.enriched) >= 1) =>
    /\ Len(work.enriched) = Len(rawVideos)
    /\ work.channelAvgVpd = MeanVpd
    /\ response.channelAvgVpd = ToFixed(MeanVpd, 1)
    /\ \A i \in 1..Len(work.enriched) :
         work.enriched[i].velocityScore =
           ToFixed(RDiv(work.enriched[i].viewsPerDay, MeanVpd), 3)

\* A report on three or more videos, one of them older than a day, whose mean
\* has more than one decimal.
C16_Witness ==
  /\ Reported
  /\ Len(work.enriched) >= 3
  /\ \E i \in 1..Len(work.enriched) :
       /\ work.enriched[i].daysSincePublish >= 2
       /\ work.enriched[i].viewCount > 0
  /\ IsNum(work.channelAvgVpd)
  /\ response.channelAvgVpd # work.channelAvgVpd

\* C17: topVideos and bottomVideos have min(15, n) entries each, the first and
\* the last of the list ranked descending by viewsPerDay, in the ranked order.
C17_TopBottomVideos ==
  Reported =>
    LET ranked == work.enriched
        n == Len(ranked)
        k == IF n < 15 THEN n ELSE 15
    IN /\ \A i \in 1..(n - 1) :
            ~RLt(ranked[i].viewsPerDay, ranked[i + 1].viewsPerDay)
       /\ Len(response.topVideos) = k
       /\ Len(response.bottomVideos) = k
       /\ \A i \in 1..k :
            /\ response.topVideos[i] = ranked[i]
            /\ response.bottomVideos[i] = ranked[n - k + i]

\* A report on more than thirty videos: fifteen at either end, none shared.
C17_Witness ==
  /\ Reported
  /\ Len(work.enriched) > 30
  /\ Len(response.topVideos) = 15
  /\ Len(response.bottomVideos) = 15
  /\ RGt(response.topVideos[15].viewsPerDay, response.bottomVideos[1].viewsPerDay)

\* C18: the page loop ends after at most min(maxResults, 200) page requests
\* (none when maxResults is no positive number), whatever the pages carry,
\* pages with a continuation token and no video id included.
C18_PageRequestsBounded ==
  ParamRead =>
    IF IsNum(maxResults) /\ RGeq(maxResults, Num(0))
      THEN RGeq(MathMin(maxResults, Num(200)), Num(hist.pageCalls))
      ELSE hist.pageCalls = 0

\* The call awaited is the one the handler's position asks for: the k-th page
\* request carries the token the answer to page k - 1 returned (none for the
\* first) and precedes every detail batch; the k-th batch is the k-th run of 50
\* of the ids collected.
AwaitedCallInOrder ==
  /\ inflight.kind = "none" <=> pc \notin {"channel", "page", "detail"}
  /\ inflight.kind = "channels" =>
       pc = "channel" /\ hist.calls = 1 /\ hist.pageCalls = 0 /\ hist.detailCalls = 0
  /\ inflight.kind = "playlistItems" =>
       /\ pc = "page"
       /\ hist.detailCalls = 0
       /\ inflight.pageToken = hist.pageCalls - 1
  /\ inflight.kind = "videos" =>
       /\ pc = "detail"
       /\ inflight.ids =
            SubSeq(videoIds, 50 * (hist.detailCalls - 1) + 1,
                   Min(50 * hist.detailCalls, Len(videoIds)))
  /\ hist.calls = (IF hist.calls >= 1 THEN 1 ELSE 0) + hist.pageCalls + hist.detailCalls

\* A call is issued only when none is awaited, one at a time; once a detail
\* batch is requested no page is, and the ids stay as collected.
CallsOneAtATime ==
  /\ hist'.calls # hist.calls =>
       /\ hist'.calls = hist.calls + 1
       /\ inflight = NoCall
       /\ inflight' # NoCall
  /\ hist.detailCalls >= 1 =>
       /\ hist'.pageCalls = hist.pageCalls
       /\ videoIds' = videoIds

\* C19: the external calls form a serial chain: at most one is outstanding; the
\* channel lookup is answered before the first page request; page k + 1 is
\* requested after page k's answer with the token that answer returned; every
\* detail batch is requested after the last page's answer, in id order.
C19_SerialChain == [](AwaitedCallInOrder) /\ [][CallsOneAtATime]_vars

\* The second detail batch awaited, after two or more pages.
C19_Witness ==
  /\ inflight.kind = "videos"
  /\ hist.detailCalls = 2
  /\ hist.pageCalls >= 2
  /\ pageToken = NoToken

\* The place of a ranked video in the upstream's answer.
InputPosition(v) == CHOOSE i \in 1..Len(rawVideos) : rawVideos[i].id = v.videoId

\* C20: the ranked list is a permutation of the enriched videos in
\* non-increasing viewsPerDay order; videos of equal viewsPerDay keep the
\* relative order of the upstream's answer.
C20_StableRanking ==
  Reported =>
    LET ranked == work.enriched
        n == Len(ranked)
    IN /\ n = Len(rawVideos)
       /\ {ranked[k].videoId : k \in 1..n} = {rawVideos[i].id : i \in 1..n}
       /\ \A k \in 1..n :
            /\ ranked[k].title = rawVideos[InputPosition(ranked[k])].title
            /\ ranked[k].viewCount =
                 ParseCount(rawVideos[InputPosition(ranked[k])].viewCount)
       /\ \A k, l \in 1..n :
            k < l =>
              /\ RGeq(ranked[k].viewsPerDay, ranked[l].viewsPerDay)
              /\ ranked[k].viewsPerDay = ranked[l].viewsPerDay =>
                   InputPosition(ranked[k]) < InputPosition(ranked[l])

\* A report in which two different videos of equal viewsPerDay stand apart in
\* the upstream's answer, a video of more views per day between them.
C20_Witness ==
  /\ Reported
  /\ Len(rawVideos) >= 3
  /\ \E k \in 1..(Len(work.enriched) - 1) :
       /\ work.enriched[k].viewsPerDay = work.enriched[k + 1].viewsPerDay
       /\ work.enriched[k].title # work.enriched[k + 1].title
       /\ InputPosition(work.enriched[k]) + 1 < InputPosition(work.enriched[k + 1])
       /\ RGt(work.enriched[1].viewsPerDay, work.enriched[k].viewsPerDay)

\* The words of the top quartile's titles in the order the count meets them.
ScannedWords == keywordsRange(work.topQ, 1, Len(work.topQ))

\* C11: the keyword list is ordered by descending frequency, words of equal
\* frequency in the order in which the scan of the top quartile's titles met
\* them first (words made of digits only, such as "2026", included), and has at
\* most 10 entries.
C11_KeywordOrder ==
  Reported =>
    LET kw == response.summary.topTitleKeywords
    IN /\ Len(kw) <= 10
       /\ \A k, l \in 1..Len(kw) :
            k < l =>
              /\ kw[k].count >= kw[l].count
              /\ kw[k].count = kw[l].count =>
                   FirstAt(ScannedWords, kw[k].word) < FirstAt(ScannedWords, kw[l].word)

\* The ranked videos whose title the pattern matches.
MatchingVideos(name) ==
  {i \in 1..Len(work.enriched) : name \in FactsOf(work.enriched[i].title).formats}

PatternIndex(name) == CHOOSE k \in 1..Len(FORMAT_NAMES) : FORMAT_NAMES[k] = name

\* C13: the format clusters are exactly the patterns that match a title, each
\* once and with the number of matching videos as its count (never 0), in
\* non-increasing order of avgViewsPerDay, clusters of equal avgViewsPerDay in
\* the order of the pattern list.
C13_FormatClusters ==
  Reported =>
    LET cl == response.formatClusters
    IN /\ {cl[k].name : k \in 1..Len(cl)}
            = {FORMAT_NAMES[j] : j \in {i \in 1..Len(FORMAT_NAMES) :
                                          MatchingVideos(FORMAT_NAMES[i]) # {}}}
       /\ \A k, l \in 1..Len(cl) : cl[k].name = cl[l].name => k = l
       /\ \A k \in 1..Len(cl) :
            /\ cl[k].count > 0
            /\ cl[k].count = Cardinality(MatchingVideos(cl[k].name))
       /\ \A k, l \in 1..Len(cl) :
            k < l =>
              /\ RGeq(cl[k].avgViewsPerDay, cl[l].avgViewsPerDay)
              /\ cl[k].avgViewsPerDay = cl[l].avgViewsPerDay =>
                   PatternIndex(cl[k].name) < PatternIndex(cl[l].name)

\* A report with a pattern that matches no title, two clusters of equal
\* avgViewsPerDay, and a cluster ahead of one whose pattern is listed earlier.
C13_Witness ==
  /\ Reported
  /\ \E j \in 1..Len(FORMAT_NAMES) : MatchingVideos(FORMAT_NAMES[j]) = {}
  /\ \E k, l \in 1..Len(response.formatClusters) :
       /\ k < l
       /\ response.formatClusters[k].avgViewsPerDay
            = response.formatClusters[l].avgViewsPerDay
  /\ \E k, l \in 1..Len(response.formatClusters) :
       /\ k < l
       /\ PatternIndex(response.formatClusters[k].name)
            > PatternIndex(response.formatClusters[l].name)
       /\ response.formatClusters[k].count # response.formatClusters[l].count

\* The duration observations of the report.
DurationObservations ==
  {k \in 1..Len(response.aiSummary.keyObservations) :
     response.aiSummary.keyObservations[k].rule = "duration"}

\* The videos of the report are the four of the scenario.
IsDurationScenario ==
  /\ Len(work.enriched) = 4
  /\ \A i \in 1..4 :
       /\ work.enriched[i].viewsPerDay = Num(500 - 100 * i)
       /\ work.enriched[i].durationSeconds = 700 - 100 * i

\* C14: the duration observation is made exactly when both quartiles' average
\* durations are known and differ by more than 30 seconds (not by 30); it says
\* "Longer" exactly when the top quartile's is the greater, "Shorter"
\* otherwise.  For viewsPerDay 400, 300, 200, 100 and durations 600, 500, 400,
\* 300 the quartiles hold one video each, of 600 and 300 seconds, and the
\* observation says "Longer".
C14_DurationRule ==
  Reported =>
    LET top == response.summary.avgDurationTop
        bottom == response.summary.avgDurationBottom
        obs == response.aiSummary.keyObservations
        fires == /\ top # Null
                 /\ bottom # Null
                 /\ \/ RGt(RSub(top, bottom), Num(30))
                    \/ RGt(RSub(bottom, top), Num(30))
    IN /\ Cardinality(DurationObservations) = IF fires THEN 1 ELSE 0
       /\ \A k \in DurationObservations :
            obs[k].direction = IF RGt(top, bottom) THEN "Longer" ELSE "Shorter"
       /\ IsDurationScenario =>
            /\ Len(work.topQ) = 1
            /\ Len(work.bottomQ) = 1
            /\ top = Num(600)
            /\ bottom = Num(300)
            /\ \E k \in DurationObservations : obs[k].direction = "Longer"

\* The report on the scenario, with its "Longer" observation.
C14_Witness ==
  /\ Reported
  /\ IsDurationScenario
  /\ \E k \in DurationObservations :
       response.aiSummary.keyObservations[k].direction = "Longer"

\* The generic A/B-test suggestions among the experiments.
GenericExperiments ==
  {k \in 1..Len(response.aiSummary.recommendedExperiments) :
     response.aiSummary.recommendedExperiments[k] = GenericExperiment}

\* C15: recommendedExperiments has 3 to 5 entries; the generic A/B-test
\* suggestion is there only where fewer than 3 experiments came of the rules,
\* after them and up to 3 entries in all; the slot experiment is there once.
C15_Experiments ==
  Reported =>
    LET exps == response.aiSummary.recommendedExperiments
    IN /\ Len(exps) >= 3
       /\ Len(exps) <= 5
       /\ Cardinality({k \in 1..Len(exps) : exps[k].experiment = "slot"}) = 1
       /\ GenericExperiments # {} =>
            /\ Len(exps) = 3
            /\ \A k \in 1..Len(exps) :
                 k \in GenericExperiments <=>
                   k > Len(exps) - Cardinality(GenericExperiments)

\* A report on videos in which one generic suggestion fills the third place.
C15_Witness ==
  /\ Reported
  /\ Len(work.enriched) >= 1
  /\ Cardinality(GenericExperiments) = 1
  /\ response.aiSummary.recommendedExperiments[1].experiment = "duration"
  /\ response.aiSummary.recommendedExperiments[2].experiment = "slot"

\* C21: the stages after the ranking (title metrics, upload cadence, format
\* clusters, summary) leave the ranked list as the sort left it: the same
\* videos with the same fields in the same order, so that topVideos and
\* bottomVideos, sliced afterwards, are the head and the tail of the
\* viewsPerDay ranking.
C21_RankingUntouched ==
  Reported =>
    /\ work.enrichedAtResponse = work.enriched
    /\ \A i \in 1..Len(work.enrichedAtResponse) :
         work.enrichedAtResponse[i]
           = Enrich(BaseVideo(rawVideos[InputPosition(work.enrichedAtResponse[i])],
                              work.now),
                    work.channelAvgVpd)
    /\ \A i \in 1..(Len(work.enrichedAtResponse) - 1) :
         RGeq(work.enrichedAtResponse[i].viewsPerDay,
              work.enrichedAtResponse[i + 1].viewsPerDay)
    /\ \A i \in 1..Len(response.topVideos) :
         response.topVideos[i] = work.enriched[i]
    /\ \A i \in 1..Len(response.bottomVideos) :
         response.bottomVideos[i]
           = work.enriched[Len(work.enriched) - Len(response.bottomVideos) + i]

\* A report on more than 15 videos whose ranking is not their publish order.
C21_Witness ==
  /\ Reported
  /\ Len(work.enriched) > 15
  /\ \E i \in 1..(Len(work.enriched) - 1) :
       work.enriched[i].publishedAt > work.enriched[i + 1].publishedAt

HasViews(v) == v.viewCount > 0

\* The mean of (likes + comments) / views over the videos that have views, null
\* when none has.
MeanRate(videos) ==
  LET rated == Filter(HasViews, videos)
  IN IF Len(rated) = 0 THEN Null
     ELSE RDiv(Sum(Array([i \in 1..Len(rated) |->
                            Rat(rated[i].likeCount + rated[i].commentCount,
                                rated[i].viewCount)])),
               Num(Len(rated)))

\* The ranked videos a pattern matches, in ranking order.
MatchedBy(name) ==
  LET Matches(v) == name \in FactsOf(v.title).formats
  IN Filter(Matches, work.enriched)

\* C22: a video without engagement rate (no views) is left out of the
\* engagement averages, not counted as zero: the average engagement of a
\* quartile, and of a format cluster (there to 4 decimals), is the mean over its
\* videos that have a rate, and null when none has one.
C22_NullRatesExcluded ==
  Reported =>
    /\ response.summary.avgEngagementTop = MeanRate(work.topQ)
    /\ response.summary.avgEngagementBottom = MeanRate(work.bottomQ)
    /\ \A k \in 1..Len(response.formatClusters) :
         LET c == response.formatClusters[k]
             mean == MeanRate(MatchedBy(c.name))
         IN c.avgEngagementRate = IF mean = Null THEN Null ELSE ToFixed(mean, 4)

\* A report whose bottom quartile and one of whose clusters hold videos with
\* and without a rate, the rated ones with a positive mean.
C22_Witness ==
  /\ Reported
  /\ \E i, j \in 1..Len(work.bottomQ) :
       /\ work.bottomQ[i].engagementRate = Null
       /\ work.bottomQ[j].engagementRate # Null
  /\ RGt(response.summary.avgEngagementBottom, Num(0))
  /\ \E k \in 1..Len(response.formatClusters) :
       LET c == response.formatClusters[k]
       IN /\ c.avgEngagementRate # Null
          /\ RGt(c.avgEngagementRate, Num(0))
          /\ \E i \in 1..Len(MatchedBy(c.name)) :
               MatchedBy(c.name)[i].engagementRate = Null

\* The tokens of a title when every character other than a letter, a digit or
\* white space is replaced by a space before the split, without the tokens of
\* one character and the stopwords.
SpacedTokens ==
  Array([k \in 1..Len(TITLES) |-> Filter(IsKeyword, wordsOfTitle(TITLES[k]))])

SpacedTokensOf(title) ==
  SpacedTokens[CHOOSE k \in 1..Len(TITLES) : TITLES[k] = title]

\* The spaced tokens of the top quartile's titles, by halves.
RECURSIVE SpacedTokensRange(_, _)
SpacedTokensRange(lo, hi) ==
  IF lo > hi THEN <<>>
  ELSE IF lo = hi THEN SpacedTokensOf(work.topQ[lo].title)
  ELSE LET mid == (lo + hi) \div 2
       IN SpacedTokensRange(lo, mid) \o SpacedTokensRange(mid + 1, hi)

Occurrences(words, w) == Cardinality({i \in 1..Len(words) : words[i] = w})

\* C23: the keyword scan replaces every character of the lower-cased title other
\* than a letter, a digit or white space by white space before it splits, so
\* that two runs of letters or digits with only punctuation between them (an
\* apostrophe, a hyphen) count as two tokens; a token of one character and a
\* stopword is never counted.
C23_KeywordTokens ==
  Reported =>
    LET kw == response.summary.topTitleKeywords
        tokens == SpacedTokensRange(1, Len(work.topQ))
    IN /\ \A k \in 1..Len(kw) :
            /\ Len(kw[k].word) > 1
            /\ kw[k].word \notin STOPWORDS
            /\ kw[k].count = Occurrences(tokens, kw[k].word)
       /\ Len(kw) < 10 =>
            \A i \in 1..Len(tokens) : \E k \in 1..Len(kw) : kw[k].word = tokens[i]

PublishTimes == {rawVideos[i].publishedAt : i \in 1..Len(rawVideos)}
Earliest == CHOOSE t \in PublishTimes : \A u \in PublishTimes : t <= u
Latest == CHOOSE t \in PublishTimes : \A u \in PublishTimes : t >= u

\* The mean of the gaps between neighbours of the videos in publish order: the
\* gaps add up to the span from the earliest to the latest video.
MeanGapDays == Rat(Latest - Earliest, MsPerDay * (Len(rawVideos) - 1))

\* C24: the cadence is never negative, infinite or undefined.  With fewer than
\* two videos, or when all videos share one publish time, avgDaysBetweenUploads
\* and uploadsPerWeek are 0; otherwise avgDaysBetweenUploads is the mean gap
\* between neighbours in publish order (reported to 1 decimal) and
\* uploadsPerWeek is 7 divided by that mean (reported to 2 decimals).
C24_Cadence ==
  Reported =>
    LET c == response.uploadCadence
    IN /\ IsNum(c.avgDaysBetweenUploads) /\ RGeq(c.avgDaysBetweenUploads, Num(0))
       /\ IsNum(c.uploadsPerWeek) /\ RGeq(c.uploadsPerWeek, Num(0))
       /\ IF Len(rawVideos) < 2 \/ Cardinality(PublishTimes) = 1
            THEN c.avgDaysBetweenUploads = Num(0) /\ c.uploadsPerWeek = Num(0)
            ELSE /\ c.avgDaysBetweenUploads = ToFixed(MeanGapDays, 1)
                 /\ c.uploadsPerWeek = ToFixed(RDiv(Num(7), MeanGapDays), 2)

\* A report on three or more videos fetched out of publish order, with gaps of
\* different lengths.
C24_Witness ==
  /\ Reported
  /\ Len(rawVideos) >= 3
  /\ Cardinality(PublishTimes) >= 3
  /\ rawVideos[1].publishedAt > rawVideos[2].publishedAt
  /\ rawVideos[2].publishedAt < rawVideos[3].publishedAt
  /\ RGt(response.uploadCadence.avgDaysBetweenUploads, Num(0))
  /\ RGt(response.uploadCadence.uploadsPerWeek, Num(0))

\* The ranked videos of one weekday (the server's, as the cadence groups them)
\* and of one hour bucket.
OnDay(d) ==
  LET IsOn(v) == getDay(v.publishedAt, tz) = d
  IN Filter(IsOn, work.enriched)
InBucket(b) ==
  LET IsIn(v) == hourBucket(v.publishedAt) = b
  IN Filter(IsIn, work.enriched)

MeanVpdOf(videos) ==
  RDiv(Sum(Array([i \in 1..Len(videos) |-> videos[i].viewsPerDay])), Num(Len(videos)))

DayIndex(name) == CHOOSE d \in 0..6 : DAY_NAMES[d + 1] = name
BucketIndex(b) == CHOOSE k \in 1..4 : <<"morning", "afternoon", "evening", "night">>[k] = b

\* C25: the best weekday (best hour bucket) is the first group with the highest
\* mean viewsPerDay, the weekdays taken from Sunday to Saturday and the buckets
\* as morning, afternoon, evening, night: no group has a higher mean, and a
\* group with the same mean does not come earlier.
C25_FirstGroupWins ==
  (Reported /\ Len(work.enriched) >= 1) =>
    LET bestDay == DayIndex(response.uploadCadence.bestDayOfWeek)
        bestBucket == response.uploadCadence.bestHourBucket
    IN /\ OnDay(bestDay) # <<>>
       /\ \A d \in 0..6 :
            OnDay(d) # <<>> =>
              /\ RGeq(MeanVpdOf(OnDay(bestDay)), MeanVpdOf(OnDay(d)))
              /\ MeanVpdOf(OnDay(d)) = MeanVpdOf(OnDay(bestDay)) => bestDay <= d
       /\ InBucket(bestBucket) # <<>>
       /\ \A b \in {"morning", "afternoon", "evening", "night"} :
            InBucket(b) # <<>> =>
              /\ RGeq(MeanVpdOf(InBucket(bestBucket)), MeanVpdOf(InBucket(b)))
              /\ MeanVpdOf(InBucket(b)) = MeanVpdOf(InBucket(bestBucket)) =>
                   BucketIndex(bestBucket) <= BucketIndex(b)

\* A report in which a later weekday and a later bucket tie with the best, and
\* the first ranked video belongs to the later groups.
C25_Witness ==
  /\ Reported
  /\ Len(work.enriched) >= 2
  /\ LET bestDay == DayIndex(response.uploadCadence.bestDayOfWeek)
         bestBucket == response.uploadCadence.bestHourBucket
         first == work.enriched[1]
     IN /\ getDay(first.publishedAt, tz) > bestDay
        /\ MeanVpdOf(OnDay(getDay(first.publishedAt, tz))) = MeanVpdOf(OnDay(bestDay))
        /\ BucketIndex(hourBucket(first.publishedAt)) > BucketIndex(bestBucket)
        /\ MeanVpdOf(InBucket(hourBucket(first.publishedAt)))
             = MeanVpdOf(InBucket(bestBucket))

HasRule(rule) ==
  \E k \in 1..Len(response.aiSummary.keyObservations) :
    response.aiSummary.keyObservations[k].rule = rule
HasExperiment(e) ==
  \E k \in 1..Len(response.aiSummary.recommendedExperiments) :
    response.aiSummary.recommendedExperiments[k].experiment = e

\* The gaps between the quartiles' shares of titles with numerals and with
\* emotional words, top minus bottom.
NumeralsGap ==
  RSub(response.titleAnalysis.topQuartile.pctWithNumbers,
       response.titleAnalysis.bottomQuartile.pctWithNumbers)
EmotionalGap ==
  RSub(response.titleAnalysis.topQuartile.pctWithEmotional,
       response.titleAnalysis.bottomQuartile.pctWithEmotional)

\* C26: the numerals observation and the emotional observation are emitted
\* exactly when the top and bottom shares differ by at least 0.05, a gap of
\* exactly 5 percentage points included; the numerals experiment is added only
\* for such a gap with the top share the larger; the emotional experiment is
\* added exactly when the emotional observation is, worded by the sign of the
\* gap.
C26_GapRules ==
  Reported =>
    /\ HasRule("numbers") <=> RGeq(MathAbs(NumeralsGap), Rat(5, 100))
    /\ HasRule("emotional") <=> RGeq(MathAbs(EmotionalGap), Rat(5, 100))
    /\ HasExperiment("numbers") =>
         RGeq(MathAbs(NumeralsGap), Rat(5, 100)) /\ RGt(NumeralsGap, Num(0))
    /\ HasExperiment("emotional") <=> HasRule("emotional")
    /\ \A k \in 1..Len(response.aiSummary.recommendedExperiments) :
         LET e == response.aiSummary.recommendedExperiments[k]
         IN e.experiment = "emotional" => (e.lead <=> RGt(EmotionalGap, Num(0)))

\* The number of ranked videos that carry a label.
Labelled(label) ==
  Cardinality({i \in 1..Len(work.enriched) : work.enriched[i].velocityLabel = label})

\* C27: the four counts of velocityDistribution agree with the labels of the
\* videos: exploding, outperforming, baseline and underperforming are the
\* numbers of videos labelled "Exploding", "Outperforming", "Baseline" and
\* "Underperforming".
C27_CountsMatchLabels ==
  Reported =>
    LET dist == response.summary.velocityDistribution
    IN /\ dist.exploding = Labelled("Exploding")
       /\ dist.outperforming = Labelled("Outperforming")
       /\ dist.baseline = Labelled("Baseline")
       /\ dist.underperforming = Labelled("Underperforming")

\* C28: the four counts of velocityDistribution add up to the number of videos
\* analysed, for every set of videos, one whose videos all have 0 views
\* included.
C28_CountsSumToN ==
  Reported =>
    LET dist == response.summary.velocityDistribution
    IN dist.exploding + dist.outperforming + dist.baseline + dist.underperforming
         = Len(work.enriched)

TopIds == {work.topQ[i].videoId : i \in 1..Len(work.topQ)}
BottomIds == {work.bottomQ[i].videoId : i \in 1..Len(work.bottomQ)}

\* C29: the top and the bottom quartile have a video in common only when one
\* video was analysed; from two videos on (two and three included) no video is
\* in both.
C29_QuartilesDisjoint ==
  Reported =>
    /\ TopIds \cap BottomIds # {} => Len(work.enriched) = 1
    /\ Len(work.enriched) >= 2 =>
         /\ TopIds \cap BottomIds = {}
         /\ Len(work.topQ) + Len(work.bottomQ) <= Len(work.enriched)
    /\ Len(work.enriched) = 1 => work.topQ = work.bottomQ /\ Len(work.topQ) = 1

\* A report on three videos: either quartile is one video, the middle one is
\* in neither.
C29_Witness ==
  /\ Reported
  /\ Len(work.enriched) = 3
  /\ TopIds = {work.enriched[1].videoId}
  /\ BottomIds = {work.enriched[3].videoId}
  /\ work.enriched[2].videoId \notin TopIds \cup BottomIds

\* C30: the reported uploadsPerWeek is 0 exactly when the reported
\* avgDaysBetweenUploads is 0.
C30_ZeroTogether ==
  Reported =>
    (response.uploadCadence.uploadsPerWeek = Num(0)
       <=> response.uploadCadence.avgDaysBetweenUploads = Num(0))

====
